---- MODULE Spec2Model ----
(***************************************************************************)
(* Verification model of the BallTales MLB agent backend:                  *)
(*   - GeminiSolid.generate_with_fallback   (api/gemini_solid.py)          *)
(*   - MLBPythonREPL.__call__               (api/views/onboarding/repl.py) *)
(*   - MLBAgent                             (api/agent.py)                 *)
(* Each operation of the program is started from the idle state by a Call  *)
(* action that draws its inputs and the answers of its environment (the    *)
(* LLM service, the subprocess, the HTTP upstream), runs through the       *)
(* actions that model its code, and is cleared by Reset.                   *)
(***************************************************************************)
EXTENDS Integers, Sequences, FiniteSets, TLC

VARIABLES
    op,        \* the operation in flight: "idle" or the name of the running operation
    gStack,    \* generate_with_fallback: stack of activations [idx, model_name, attempt]
    gAnswer,   \* what each model of the hierarchy answers to generate_content
    gCalls,    \* the models generate_content was invoked on, in order
    gPhase,    \* position of the top activation: "body", "except", "wrapper", "returning", "done"
    gExc,      \* the exception in flight (a message) or NoExc
    gOut,      \* what the outermost caller observed: [kind, val, errors]
    gPref      \* the model_name the outermost caller passed (NoModel when it passed none)

VARIABLES
    rSnippet,  \* MLBPythonREPL.__call__: the code it was given [indent, does, text]
    rPhase,    \* "idle", "written" (script on disk), "ran" (subprocess.run is over), "done"
    rProc,     \* how subprocess.run ended: [ended, returncode, stdout, stderr]
    rOut       \* what the caller of the sandbox observed: [kind, val]

VARIABLES
    xFn,       \* "_process_extraction" or "_apply_filtering"
    xData,     \* the data argument
    xInfo,     \* the extraction_info / filtering_info argument
    xPhase,    \* "idle", "completion", "sandbox", "done"
    xPath,     \* the branch taken: "none", "direct", "code"
    xLlm,      \* how the completion call ended: [kind, text]
    xRepl,     \* how the sandbox call ended: [kind, val]
    xOut       \* what the caller observed: [kind, val]

VARIABLES
    aPhase,    \* analyze_intent: "idle", "completion", "done"
    aResp,     \* how the completion call of analyze_intent ended
    aOut       \* what the caller of analyze_intent observed: [kind, val]

VARIABLES
    cPhase,    \* create_data_plan: "idle", "completion", "done"
    cIntent,   \* the intent argument
    cResp,     \* how the completion call of create_data_plan ended
    cOut       \* what the caller of create_data_plan observed: [kind, val]

VARIABLES
    ePhase,        \* execute_plan: "idle", "loop", "done"
    ePlan,         \* the plan argument
    eIdx,          \* the position of the for loop in plan["steps"]
    eRaw,          \* what _execute_step returned, per step executed so far
    eExtractions,  \* how many times _process_extraction ran, per step executed so far
    eLog,          \* per step executed so far: did its runner fail, was the handler of
                   \* _execute_step entered, what became of the step's fallback
    eResults,      \* the results dict
    eOut           \* what the caller of execute_plan observed: [kind, val]

VARIABLES
    self_intent,      \* self.intent of the one MLBAgent instance
    self_user_query,  \* self.user_query
    event_loop,       \* "free", or the request whose blocking call holds the loop's thread
    pm             \* process_message: per request, its position and its locals

VARIABLES
    fFn,      \* the composing method called on its own, or "none"
    fData,    \* the data handed to it
    fAnswer,  \* how its completion call ended
    fOut      \* what its caller observed: [kind, val]

VARIABLES
    qType,     \* parameter resolution: the step's "type" ("none" for a bare call)
    qUrl,      \* the "url" of the step's catalog entry
    qParams,   \* the step's "parameters"
    qResults,  \* prior_results
    qOut       \* what the caller observed: [kind, val]

VARIABLES
    sCode,     \* generated code: the execution_code handed to sanitize_code
    sDoes,     \* what the code's statements do when they run
    sText,     \* what they write to sys.stdout
    sPhase,    \* "idle", "generated", "sanitized", "done"
    sClean,    \* sanitized_code
    sRepl,     \* repl_result
    sOut       \* what _execute_function_step's try body ended with

gVars == <<gStack, gAnswer, gCalls, gPhase, gExc, gOut, gPref>>
rVars == <<rSnippet, rPhase, rProc, rOut>>
xVars == <<xFn, xData, xInfo, xPhase, xPath, xLlm, xRepl, xOut>>
aVars == <<aPhase, aResp, aOut>>
cVars == <<cPhase, cIntent, cResp, cOut>>
eVars == <<ePhase, ePlan, eIdx, eRaw, eExtractions, eLog, eResults, eOut>>
pVars == <<self_intent, self_user_query, event_loop, pm>>
fVars == <<fFn, fData, fAnswer, fOut>>
qVars == <<qType, qUrl, qParams, qResults, qOut>>
sVars == <<sCode, sDoes, sText, sPhase, sClean, sRepl, sOut>>
vars == <<op, gVars, rVars, xVars, aVars, cVars, eVars, pVars, fVars, qVars, sVars>>

(***************************************************************************)
(* Small helpers                                                           *)
(***************************************************************************)
Range(s) == {s[i] : i \in 1..Len(s)}
Last(s) == s[Len(s)]
Front(s) == SubSeq(s, 1, Len(s) - 1)

(***************************************************************************)
(* GeminiSolid (api/gemini_solid.py)                                       *)
(***************************************************************************)
GEMINI_MODELS ==
    <<"gemini-1.5-flash-8b", "gemini-1.5-flash", "gemini-2.0-flash-exp", "gemini-1.5-pro">>

NoModel == "None"
NoExc == <<>>

\* Exception messages are sequences of words, so that "429" in str(e) is a search.
ErrRateLimit == <<"429", "Resource", "exhausted">>
ErrOther == <<"400", "Invalid", "argument">>
ErrExhausted == <<"All", "models", "exhausted">>
\* tenacity's own error once its attempts are used up
ErrRetry == <<"RetryError">>

Answers == {"ok", "429", "error"}

\* stop=stop_after_attempt(4)
StopAfterAttempt == 4

\* "429" in str(exception)
Contains429(msg) == \E i \in 1..Len(msg) : msg[i] = "429"

\* Mutant: every exception counts as a rate-limit error.
is_rate_limit_error_AnyError(e) == e /= NoExc

is_rate_limit_error(e) == e /= NoExc /\ Contains429(e)

\* retry=lambda x: isinstance(x, Exception) and "429" in str(x).  tenacity calls the
\* predicate with its RetryCallState; x.isException says whether x is an Exception.
RetryPredicate(x) == x.isException /\ Contains429(x.msg)

\* The argument tenacity hands to the retry predicate after an attempt that raised e.
RetryCallState(e) == [isException |-> FALSE, msg |-> e]

\* The text a model produces on success.
ResultOf(model) == <<"text", model>>

\* model_name = self.model_hierarchy[current_model_index] unless a name was supplied
ModelOf(frame) ==
    IF frame.model_name = NoModel THEN GEMINI_MODELS[frame.idx + 1] ELSE frame.model_name

\* Mutant: the recursion stops one model early.
AdvancesToNextModel_OneEarly(e, idx) ==
    is_rate_limit_error(e) /\ idx < Len(GEMINI_MODELS) - 2

\* the guard of the except branch that recurses
AdvancesToNextModel(e, idx) == is_rate_limit_error(e) /\ idx < Len(GEMINI_MODELS) - 1

\* the activation made by the recursive call: model_name is not passed on
NextFrame(frame) == [idx |-> frame.idx + 1, model_name |-> NoModel, attempt |-> 1]

GIdle ==
    /\ gStack = <<>>
    /\ gAnswer = [m \in Range(GEMINI_MODELS) |-> "ok"]
    /\ gCalls = <<>>
    /\ gPhase = "idle"
    /\ gExc = NoExc
    /\ gOut = [kind |-> "none", val |-> <<>>, errors |-> 0]
    /\ gPref = NoModel

GClear ==
    /\ gStack' = <<>>
    /\ gAnswer' = [m \in Range(GEMINI_MODELS) |-> "ok"]
    /\ gCalls' = <<>>
    /\ gPhase' = "idle"
    /\ gExc' = NoExc
    /\ gOut' = [kind |-> "none", val |-> <<>>, errors |-> 0]
    /\ gPref' = NoModel

\* A caller awaits generate_with_fallback(prompt, model_name=pref); current_model_index
\* keeps its default 0 (no caller in the repository passes it).
CallGenerate(pref, answer) ==
    /\ op = "idle"
    /\ op' = "generate_with_fallback"
    /\ gStack' = <<[idx |-> 0, model_name |-> pref, attempt |-> 1]>>
    /\ gAnswer' = answer
    /\ gCalls' = <<>>
    /\ gPhase' = "body"
    /\ gExc' = NoExc
    /\ gOut' = [kind |-> "none", val |-> <<>>, errors |-> 0]
    /\ gPref' = pref
    /\ UNCHANGED <<rVars, xVars, aVars, cVars, eVars, pVars, fVars, qVars, sVars>>

\* Lines 46-58: the exhausted check, then generate_content on the chosen model.
GenerateBody ==
    /\ op = "generate_with_fallback"
    /\ gPhase = "body"
    /\ LET frame == Last(gStack)
           model == ModelOf(frame)
       IN IF frame.idx >= Len(GEMINI_MODELS)
          THEN /\ gExc' = ErrExhausted
               /\ gPhase' = "wrapper"
               /\ UNCHANGED <<gCalls, gOut>>
          ELSE /\ gCalls' = Append(gCalls, model)
               /\ IF gAnswer[model] = "ok"
                  THEN /\ gPhase' = "returning"
                       /\ gExc' = NoExc
                       /\ gOut' = [gOut EXCEPT !.val = ResultOf(model)]
                  ELSE /\ gPhase' = "except"
                       /\ gExc' = IF gAnswer[model] = "429" THEN ErrRateLimit ELSE ErrOther
                       /\ UNCHANGED gOut
    /\ UNCHANGED <<op, gStack, gAnswer, gPref, rVars, xVars, aVars, cVars, eVars, pVars, fVars, qVars, sVars>>

\* Lines 60-71: recurse on the next model after a rate-limit error, else re-raise.
GenerateExcept ==
    /\ op = "generate_with_fallback"
    /\ gPhase = "except"
    /\ LET frame == Last(gStack)
       IN IF AdvancesToNextModel(gExc, frame.idx)
          THEN /\ gStack' = Append(gStack, NextFrame(frame))
               /\ gPhase' = "body"
               /\ gExc' = NoExc
          ELSE /\ gPhase' = "wrapper"
               /\ UNCHANGED <<gStack, gExc>>
    /\ UNCHANGED <<op, gAnswer, gCalls, gOut, gPref, rVars, xVars, aVars, cVars, eVars, pVars, fVars, qVars, sVars>>

\* Lines 30-34: the tenacity wrapper of the top activation sees its body raise.  It
\* runs the body again when the retry predicate accepts and attempts remain, and lets
\* the exception out otherwise; an exception that leaves the outermost activation is
\* what the caller observes, one that leaves a recursive activation was raised inside
\* the caller's except block and leaves the caller's body too.
GenerateWrapper ==
    /\ op = "generate_with_fallback"
    /\ gPhase = "wrapper"
    /\ LET frame == Last(gStack)
       IN IF RetryPredicate(RetryCallState(gExc)) /\ frame.attempt < StopAfterAttempt
          THEN /\ gStack' = [gStack EXCEPT ![Len(gStack)].attempt = frame.attempt + 1]
               /\ gPhase' = "body"
               /\ gExc' = NoExc
               /\ UNCHANGED gOut
          ELSE /\ gStack' = Front(gStack)
               /\ gExc' = IF RetryPredicate(RetryCallState(gExc)) THEN ErrRetry ELSE gExc
               /\ IF Len(gStack) = 1
                  THEN /\ gPhase' = "done"
                       /\ gOut' = [kind |-> "raise", val |-> gExc', errors |-> gOut.errors + 1]
                  ELSE /\ gPhase' = "wrapper"
                       /\ UNCHANGED gOut
    /\ UNCHANGED <<op, gAnswer, gCalls, gPref, rVars, xVars, aVars, cVars, eVars, pVars, fVars, qVars, sVars>>

\* Line 58 / line 66: an activation returns its result to its caller.
GenerateReturn ==
    /\ op = "generate_with_fallback"
    /\ gPhase = "returning"
    /\ gStack' = Front(gStack)
    /\ IF Len(gStack) = 1
       THEN /\ gPhase' = "done"
            /\ gOut' = [gOut EXCEPT !.kind = "return"]
       ELSE /\ gPhase' = "returning"
            /\ UNCHANGED gOut
    /\ UNCHANGED <<op, gAnswer, gCalls, gExc, gPref, rVars, xVars, aVars, cVars, eVars, pVars, fVars, qVars, sVars>>

GenerateDone == op = "generate_with_fallback" /\ gPhase = "done"


(***************************************************************************)
(* MLBPythonREPL (api/views/onboarding/repl.py)                            *)
(***************************************************************************)
\* Text is a sequence of characters.  As JSON, "a" stands for the document of a
\* non-empty value, "b" for the document of an object with an "error" key, "0" for
\* the document of an empty (falsy) value; " " and "\n" are whitespace.
MaxText == 3
Chars == {"a", "b", "0", " ", "\n"}
Texts == UNION {[1..n -> Chars] : n \in 0..MaxText}

IsSpace(c) == c \in {" ", "\n"}

RECURSIVE LStrip(_)
LStrip(s) == IF s /= <<>> /\ IsSpace(Head(s)) THEN LStrip(Tail(s)) ELSE s

RECURSIVE RStrip(_)
RStrip(s) == IF s /= <<>> /\ IsSpace(Last(s)) THEN RStrip(Front(s)) ELSE s

\* str.strip()
Strip(s) == RStrip(LStrip(s))

\* str.split('\n'): the pieces between newlines, at least one piece
RECURSIVE SplitLines(_)
SplitLines(s) ==
    IF s = <<>> THEN << <<>> >>
    ELSE LET rest == SplitLines(Tail(s))
         IN IF Head(s) = "\n"
            THEN << <<>> >> \o rest
            ELSE << <<Head(s)>> \o rest[1] >> \o Tail(rest)

\* Python values of differing types are tagged records: None, and str with its characters.
None == [t |-> "None"]
Str(s) == [t |-> "str", s |-> s]

\* MLBPythonREPL(timeout=8)
ReplTimeout == 8

\* os.path.join(temp_dir, "mlb_analysis.py")
CodeFilePath == "/tmp/tmpdir/mlb_analysis.py"

\* The snippets: the column its statements start at, what it does when it runs, and
\* the text it writes to sys.stdout before that.
\*   complete   runs to its end
\*   raise      raises an Exception
\*   exit0      calls exit()              exit1     calls exit(1)
\*   interrupt  raises a BaseException that is no Exception
\*   spin       loops forever
\*   rawtext    writes text to file descriptor 1 and runs to its end
\*   rawbytes   writes bytes that are no valid UTF-8 to file descriptor 1 and runs to its end
\*   nocompile  is not valid Python
Behaviours ==
    {"complete", "raise", "exit0", "exit1", "interrupt", "spin", "rawtext", "rawbytes",
     "nocompile"}
Indents == {0, 4, 16}
Snippets ==
    {[indent |-> i, does |-> d, text |-> t] :
        i \in Indents, d \in {"complete", "raise"}, t \in Texts}
    \cup {[indent |-> i, does |-> d, text |-> <<>>] :
        i \in Indents, d \in Behaviours \ {"complete", "raise"}}
NoSnippet == [indent |-> 0, does |-> "none", text |-> <<>>]

\* The message of the exception a snippet raises: str(e)
RaisedMessage == Str(<<"b", "o", "o", "m">>)

\* Lines 49-63: what the wrapper prints when the snippet ran to its end.
WrapperSuccess(text) ==
    LET logs == SplitLines(Strip(text))
    IN [status |-> "success",
        logs |-> Front(logs),
        error |-> None,
        output |-> Str(Last(logs))]

\* Lines 65-76: what the wrapper prints when the snippet raised an Exception.
WrapperError(text) ==
    [status |-> "error",
     logs |-> SplitLines(Strip(text)),
     error |-> RaisedMessage,
     output |-> None]

\* What the interpreter prints to stderr for an uncaught error in the script.
Traceback(kind) == <<"File", CodeFilePath, kind>>

JsonDoc(v) == [kind |-> "json", value |-> v]
RawText == [kind |-> "text", value |-> None]
RawBytes == [kind |-> "bytes", value |-> None]

\* Lines 36-77 and 84-90: running the wrapped script.  The snippet is spliced in at
\* its own indentation inside the wrapper's try block, whose other statements are
\* indented by four spaces.  stdout is the sequence of things written to the
\* process's real standard output.
RunWrapped(snippet) ==
    IF snippet.indent = 0
    THEN [ended |-> "exit", returncode |-> 1, stdout |-> <<>>,
          stderr |-> Traceback("IndentationError: expected an indented block")]
    ELSE IF snippet.indent /= 4
    THEN [ended |-> "exit", returncode |-> 1, stdout |-> <<>>,
          stderr |-> Traceback("IndentationError: unindent does not match")]
    ELSE CASE snippet.does = "nocompile" ->
                [ended |-> "exit", returncode |-> 1, stdout |-> <<>>,
                 stderr |-> Traceback("SyntaxError: invalid syntax")]
           [] snippet.does = "complete" ->
                [ended |-> "exit", returncode |-> 0,
                 stdout |-> <<JsonDoc(WrapperSuccess(snippet.text))>>, stderr |-> <<>>]
           [] snippet.does = "raise" ->
                [ended |-> "exit", returncode |-> 0,
                 stdout |-> <<JsonDoc(WrapperError(snippet.text))>>, stderr |-> <<>>]
           [] snippet.does = "exit0" ->
                [ended |-> "exit", returncode |-> 0, stdout |-> <<>>, stderr |-> <<>>]
           [] snippet.does = "exit1" ->
                [ended |-> "exit", returncode |-> 1, stdout |-> <<>>, stderr |-> <<>>]
           [] snippet.does = "interrupt" ->
                [ended |-> "exit", returncode |-> 1, stdout |-> <<>>,
                 stderr |-> Traceback("KeyboardInterrupt")]
           [] snippet.does = "spin" ->
                [ended |-> "timeout", returncode |-> -9, stdout |-> <<>>, stderr |-> <<>>]
           [] snippet.does = "rawtext" ->
                [ended |-> "exit", returncode |-> 0,
                 stdout |-> <<RawText, JsonDoc(WrapperSuccess(snippet.text))>>,
                 stderr |-> <<>>]
           [] snippet.does = "rawbytes" ->
                [ended |-> "exit", returncode |-> 0,
                 stdout |-> <<RawBytes, JsonDoc(WrapperSuccess(snippet.text))>>,
                 stderr |-> <<>>]

\* text=True: subprocess.run decodes the captured output; it raises UnicodeDecodeError
\* on bytes that are no text.
DecodeFails(proc) == \E i \in 1..Len(proc.stdout) : proc.stdout[i].kind = "bytes"

\* json.loads(result.stdout.strip()): one JSON document and nothing else
JsonParses(stdout) == Len(stdout) = 1 /\ stdout[1].kind = "json"
JsonLoads(stdout) == stdout[1].value

\* line.replace(code_file_path, "<analysis>") for every line of stderr
CleanStderr(stderr) ==
    [i \in 1..Len(stderr) |-> IF stderr[i] = CodeFilePath THEN "<analysis>" ELSE stderr[i]]

TimedOutMessage(timeout) == Str(<<"Execution timed out after", timeout, "seconds">>)
ParseFailedMessage == Str(<<"Failed to parse execution result">>)

ErrorResult(msg) == [status |-> "error", logs |-> <<>>, error |-> msg, output |-> None]

\* Lines 82-125: the try block around subprocess.run.  Only TimeoutExpired has a
\* handler; any other exception of subprocess.run leaves __call__.
ReplOutcome(proc) ==
    IF proc.ended = "timeout"
    THEN [kind |-> "return", val |-> ErrorResult(TimedOutMessage(ReplTimeout))]
    ELSE IF DecodeFails(proc)
    THEN [kind |-> "raise", val |-> <<"UnicodeDecodeError">>]
    ELSE IF proc.returncode = 0
    THEN IF JsonParses(proc.stdout)
         THEN [kind |-> "return", val |-> JsonLoads(proc.stdout)]
         ELSE [kind |-> "return", val |-> ErrorResult(ParseFailedMessage)]
    ELSE [kind |-> "return", val |-> ErrorResult(Str(CleanStderr(proc.stderr)))]

NoProc == [ended |-> "none", returncode |-> 0, stdout |-> <<>>, stderr |-> <<>>]
NoOut == [kind |-> "none", val |-> None]

RIdle ==
    /\ rSnippet = NoSnippet
    /\ rPhase = "idle"
    /\ rProc = NoProc
    /\ rOut = NoOut

RClear ==
    /\ rSnippet' = NoSnippet
    /\ rPhase' = "idle"
    /\ rProc' = NoProc
    /\ rOut' = NoOut

\* Lines 31-80: a caller awaits self.repl(code); the wrapped script is written.
CallRepl ==
    /\ op = "idle"
    /\ op' = "repl"
    /\ \E snippet \in Snippets : rSnippet' = snippet
    /\ rPhase' = "written"
    /\ UNCHANGED <<rProc, rOut, gVars, xVars, aVars, cVars, eVars, pVars, fVars, qVars, sVars>>

\* Lines 84-90: subprocess.run runs the script until it exits or the timeout expires.
ReplRun ==
    /\ op = "repl"
    /\ rPhase = "written"
    /\ rProc' = RunWrapped(rSnippet)
    /\ rPhase' = "ran"
    /\ UNCHANGED <<op, rSnippet, rOut, gVars, xVars, aVars, cVars, eVars, pVars, fVars, qVars, sVars>>

\* Lines 92-125: the result handed to the caller.
ReplFinish ==
    /\ op = "repl"
    /\ rPhase = "ran"
    /\ rOut' = ReplOutcome(rProc)
    /\ rPhase' = "done"
    /\ UNCHANGED <<op, rSnippet, rProc, gVars, xVars, aVars, cVars, eVars, pVars, fVars, qVars, sVars>>

ReplDone == op = "repl" /\ rPhase = "done"

(***************************************************************************)
(* JSON values and completions, as MLBAgent (api/agent.py) sees them       *)
(***************************************************************************)
\* A JSON value: what it is, whether Python finds it truthy, whether it is an object
\* with an "error" key, and the length of its serialisation.
Json(id, truthy, hasError, size) ==
    [t |-> "json", id |-> id, truthy |-> truthy, hasError |-> hasError, size |-> size]

\* json.loads of a text: whitespace around one document is accepted, anything else
\* raises JSONDecodeError.
JsonTextParses(text) == Len(Strip(text)) = 1 /\ Strip(text)[1] \in {"a", "b", "0"}
JsonTextValue(text) ==
    LET c == Strip(text)[1]
    IN Json(c, c /= "0", c = "b", 3)

\* How an awaited generate_with_fallback ends for the agent: it raises, or it returns
\* an object whose .text is a text.
Completions ==
    {[kind |-> "raise", text |-> <<>>]} \cup {[kind |-> "return", text |-> t] : t \in Texts}
NoCompletion == [kind |-> "none", text |-> <<>>]
\* A completion that is generated code: what the code does is decided when it runs.
CodeCompletions ==
    {[kind |-> "raise", text |-> <<>>], [kind |-> "return", text |-> <<>>]}

\* The results self.repl(code=...) can hand to the agent: those of the sandbox for the
\* code the agent built, whatever the generated code does.
SandboxOutcomes(indents) ==
    {ReplOutcome(RunWrapped(sn)) : sn \in {c \in Snippets : c.indent \in indents}}

\* Truthiness of Python values
Truthy(v) ==
    CASE v.t = "None" -> FALSE
      [] v.t = "str" -> v.s /= <<>>
      [] v.t = "json" -> v.truthy

(***************************************************************************)
(* MLBAgent._process_extraction and MLBAgent._apply_filtering              *)
(***************************************************************************)
\* size_threshold: int = 500_000
EXTRACTION_SIZE_THRESHOLD == 500000
\* size_threshold: int = 100_000
FILTERING_SIZE_THRESHOLD == 100000

SizeThreshold(fn) ==
    IF fn = "_process_extraction" THEN EXTRACTION_SIZE_THRESHOLD ELSE FILTERING_SIZE_THRESHOLD

\* len(json.dumps(data)) / len(str(data))
DataSize(data) == data.size

Return(v) == [kind |-> "return", val |-> v]
Raise(e) == [kind |-> "raise", val |-> e]

\* Mutant: the comparison with the threshold is strict.
UsesDirectPath_Strict(fn, data) == DataSize(data) < SizeThreshold(fn)

\* if data_size <= size_threshold
UsesDirectPath(fn, data) == DataSize(data) <= SizeThreshold(fn)

\* if not filtering_info or filtering_info.lower() == "none": return data
FilteringSkipped(fn, info) == fn = "_apply_filtering" /\ info \in {"", "none"}

\* result.text.strip().replace("```json\n", "").replace("```", "").replace("\n", "")
RECURSIVE DropNewlines(_)
DropNewlines(s) ==
    IF s = <<>> THEN s
    ELSE IF Head(s) = "\n" THEN DropNewlines(Tail(s)) ELSE <<Head(s)>> \o DropNewlines(Tail(s))

\* The text handed to json.loads in the direct branch.
DirectText(fn, text) ==
    IF fn = "_process_extraction" THEN DropNewlines(Strip(text)) ELSE Strip(text)

\* Mutant: a failed direct call yields nothing instead of the data.
DirectBranch_ReturnsNone(fn, data, llm) ==
    IF llm.kind = "raise" \/ ~JsonTextParses(DirectText(fn, llm.text))
    THEN Return(None)
    ELSE Return(JsonTextValue(DirectText(fn, llm.text)))

\* Lines 1301-1320 and 1412-1422: the direct-LLM branch.  Any exception of the call
\* or of json.loads is caught and the data returned.
DirectBranch(fn, data, llm) ==
    IF llm.kind = "raise" \/ ~JsonTextParses(DirectText(fn, llm.text))
    THEN Return(data)
    ELSE Return(JsonTextValue(DirectText(fn, llm.text)))

\* Lines 1363-1386 and 1468-1491: the code-generation branch once the sandbox has run.
\* RuntimeError and ValueError reach the outer handler, JSONDecodeError the inner
\* one; both return the data.
CodeBranch(fn, data, repl) ==
    IF repl.kind = "raise" THEN Return(data)
    ELSE IF repl.val.status = "error" THEN Return(data)
    ELSE IF ~Truthy(repl.val.output) THEN Return(data)
    ELSE IF ~JsonTextParses(repl.val.output.s) THEN Return(data)
    ELSE IF JsonTextValue(repl.val.output.s).hasError THEN Return(data)
    ELSE Return(JsonTextValue(repl.val.output.s))

\* The indentation of the first line of execution_code: lines 1350-1351 and 1453-1454
ExecutionCodeIndent(fn) == IF fn = "_process_extraction" THEN 16 ELSE 4

NoData == Json("none", FALSE, FALSE, 0)
NoRepl == [kind |-> "none", val |-> None]

XIdle ==
    /\ xFn = "none"
    /\ xData = NoData
    /\ xInfo = ""
    /\ xPhase = "idle"
    /\ xPath = "none"
    /\ xLlm = NoCompletion
    /\ xRepl = NoRepl
    /\ xOut = NoOut

XClear ==
    /\ xFn' = "none"
    /\ xData' = NoData
    /\ xInfo' = ""
    /\ xPhase' = "idle"
    /\ xPath' = "none"
    /\ xLlm' = NoCompletion
    /\ xRepl' = NoRepl
    /\ xOut' = NoOut

\* The data handed in: non-empty values whose serialised size is around the threshold.
ExtractionInputs(fn) ==
    {Json("data", TRUE, FALSE, SizeThreshold(fn) + d) : d \in {-1, 0, 1}}

ExtractionInfos(fn) ==
    IF fn = "_process_extraction" THEN {"spec"} ELSE {"spec", "none", ""}

\* Lines 1279-1290 and 1388-1402: the call, up to the choice of the branch.
CallExtraction(fn, data, info) ==
    /\ op = "idle"
    /\ op' = fn
    /\ xFn' = fn
    /\ xData' = data
    /\ xInfo' = info
    /\ xLlm' = NoCompletion
    /\ xRepl' = NoRepl
    /\ IF FilteringSkipped(fn, info)
       THEN /\ xPath' = "none"
            /\ xPhase' = "done"
            /\ xOut' = Return(data)
       ELSE /\ xPath' = IF UsesDirectPath(fn, data) THEN "direct" ELSE "code"
            /\ xPhase' = "completion"
            /\ xOut' = NoOut
    /\ UNCHANGED <<gVars, rVars, aVars, cVars, eVars, pVars, fVars, qVars, sVars>>

\* Lines 1301-1344 and 1412-1446: the completion call of the branch comes back.
ExtractionCompletion ==
    /\ op \in {"_process_extraction", "_apply_filtering"}
    /\ xPhase = "completion"
    /\ \E llm \in IF xPath = "code" THEN CodeCompletions ELSE Completions :
          /\ xLlm' = llm
          /\ IF xPath = "direct"
             THEN /\ xOut' = DirectBranch(xFn, xData, llm)
                  /\ xPhase' = "done"
             ELSE IF llm.kind = "raise"
             THEN /\ xOut' = Return(xData)
                  /\ xPhase' = "done"
             ELSE /\ xOut' = NoOut
                  /\ xPhase' = "sandbox"
    /\ UNCHANGED <<op, xFn, xData, xInfo, xPath, xRepl, gVars, rVars, aVars, cVars, eVars, pVars, fVars, qVars, sVars>>

\* Lines 1345-1386 and 1448-1491: the generated code is run in the sandbox.
ExtractionSandbox ==
    /\ op \in {"_process_extraction", "_apply_filtering"}
    /\ xPhase = "sandbox"
    /\ \E repl \in SandboxOutcomes({ExecutionCodeIndent(xFn)}) :
          /\ xRepl' = repl
          /\ xOut' = CodeBranch(xFn, xData, repl)
    /\ xPhase' = "done"
    /\ UNCHANGED <<op, xFn, xData, xInfo, xPath, xLlm, gVars, rVars, aVars, cVars, eVars, pVars, fVars, qVars, sVars>>

ExtractionDone == op \in {"_process_extraction", "_apply_filtering"} /\ xPhase = "done"

(***************************************************************************)
(* MLBAgent.analyze_intent (api/agent.py) and the enums of api/models.py   *)
(***************************************************************************)
\* A Python dict is a function from its keys.
Without(d, k) == [x \in DOMAIN d \ {k} |-> d[x]]
With(d, k, v) == (k :> v) @@ d
List(items) == [t |-> "list", items |-> items]

IntentType ==
    {"team_info", "player_info", "game_info", "stats", "standings", "schedule",
     "highlights", "conversation"}
Specificity == {"general", "specific", "comparative", "analytical"}
Timeframe == {"historical", "current", "upcoming", "season", "career"}
Complexity == {"simple", "moderate", "complex"}
ComparisonType == {"none", "player_vs_player", "team_vs_team", "historical"}
StatFocus == {"none", "offensive", "defensive", "both"}
Sentiment == {"neutral", "positive", "negative"}

\* The enum each coerced field of the "intent" and "context" sections goes through.
IntentEnums ==
    [type |-> IntentType, specificity |-> Specificity, timeframe |-> Timeframe,
     complexity |-> Complexity]
ContextEnums ==
    [time_frame |-> Timeframe, comparison_type |-> ComparisonType,
     stat_focus |-> StatFocus, sentiment |-> Sentiment]

EntityCategories == {"teams", "players", "dates", "stats", "locations", "events"}

\* The record of the except branch, lines 648-674.
DefaultIntent ==
    [mlb_query |-> FALSE,
     intent |-> [type |-> "conversation", description |-> "General conversation",
                 specificity |-> "general", timeframe |-> "current",
                 complexity |-> "simple"],
     entities |-> [c \in EntityCategories |-> List(<<>>)],
     context |-> [time_frame |-> "current", comparison_type |-> "none",
                  stat_focus |-> "none", sentiment |-> "neutral",
                  requires_data |-> FALSE, follow_up |-> FALSE,
                  data_requirements |-> List(<<>>)]]

\* The JSON objects a completion may hold for the intent prompt.  One field at most is
\* off: not a member of its enum ("bogus") or missing ("absent").
IntentFaults ==
    {[section |-> "none", field |-> "none", how |-> "none"]}
    \cup {[section |-> "intent", field |-> f, how |-> h] :
            f \in DOMAIN IntentEnums, h \in {"bogus", "absent"}}
    \cup {[section |-> "context", field |-> f, how |-> h] :
            f \in DOMAIN ContextEnums, h \in {"bogus", "absent"}}

Faulted(section, name, fault) ==
    IF fault.section /= name THEN section
    ELSE IF fault.how = "bogus" THEN With(Without(section, fault.field), fault.field, "bogus")
    ELSE Without(section, fault.field)

\* The shapes of one entity category in the completion: a list, a bare scalar, a
\* falsy scalar, or no such key.
EntityShapes == {List(<<"NYY">>), Str(<<"a">>), Str(<<>>), None}
Optional == {"true", "false", "absent"}

IntentObject(mlb, type, fault, requires, teams, withTeams) ==
    LET intent == [type |-> type, description |-> "d", specificity |-> "specific",
                   timeframe |-> "current", complexity |-> "simple"]
        context0 == [time_frame |-> "current", comparison_type |-> "none",
                     stat_focus |-> "none", sentiment |-> "neutral",
                     follow_up |-> FALSE, data_requirements |-> List(<<>>)]
        context == IF requires = "absent" THEN context0
                   ELSE With(context0, "requires_data", requires = "true")
        entities0 == [c \in EntityCategories \ {"teams"} |-> List(<<>>)]
        entities == IF withTeams THEN With(entities0, "teams", teams) ELSE entities0
        base == [intent |-> Faulted(intent, "intent", fault),
                 entities |-> entities,
                 context |-> Faulted(context, "context", fault)]
    IN IF mlb = "absent" THEN base ELSE With(base, "is_mlb_related", mlb = "true")

IntentObjects(types, faults, shapes) ==
    {IntentObject(mlb, type, fault, requires, teams, TRUE) :
        mlb \in Optional, type \in types, fault \in faults, requires \in Optional,
        teams \in shapes}
    \cup {IntentObject(mlb, type, fault, requires, None, FALSE) :
        mlb \in Optional, type \in types, fault \in faults, requires \in Optional}

\* How the completion call for the intent prompt ends: it raises, or its text is
\* empty, is not JSON, is JSON that is not an object, or is a JSON object.
IntentResponses(types, faults, shapes) ==
    {[kind |-> "raise"],
     [kind |-> "return", text |-> "empty"],
     [kind |-> "return", text |-> "malformed"],
     [kind |-> "return", text |-> "json", dict |-> FALSE]}
    \cup {[kind |-> "return", text |-> "json", dict |-> TRUE, value |-> o] :
            o \in IntentObjects(types, faults, shapes)}

\* json.loads(result.text) raises (line 608)
IntentParseFails(resp) == resp.kind = "return" /\ resp.text /= "json"

\* One of the subscripts or enum constructors of lines 611-635 raises.
CoercionFails(o) ==
    \/ \E f \in DOMAIN IntentEnums : f \notin DOMAIN o.intent \/ o.intent[f] \notin IntentEnums[f]
    \/ \E f \in DOMAIN ContextEnums : f \notin DOMAIN o.context \/ o.context[f] \notin ContextEnums[f]

\* Lines 637-641: entities[key] = [entities[key]] if entities[key] else []
CleanEntity(v) ==
    IF v.t = "list" THEN v
    ELSE IF Truthy(v) THEN List(<<v>>) ELSE List(<<>>)
CleanEntities(o) ==
    [o EXCEPT !.entities = [c \in DOMAIN o.entities |-> CleanEntity(o.entities[c])]]

\* The call as a function of how its completion ended.
AnalyzeIntent(resp) ==
    IF resp.kind = "raise" THEN DefaultIntent
    ELSE IF IntentParseFails(resp) THEN DefaultIntent
    ELSE IF ~resp.dict THEN DefaultIntent
    ELSE IF CoercionFails(resp.value) THEN DefaultIntent
    ELSE CleanEntities(resp.value)

NoResp == [kind |-> "none"]

\* The completions analyze_intent is run against.
AnalyzeResponses ==
    IntentResponses({"standings", "game_info", "conversation"}, IntentFaults, EntityShapes)

AIdle ==
    /\ aPhase = "idle"
    /\ aResp = NoResp
    /\ aOut = NoOut

AClear ==
    /\ aPhase' = "idle"
    /\ aResp' = NoResp
    /\ aOut' = NoOut

\* Lines 597-606: the call, up to the awaited completion.
CallAnalyzeIntent ==
    /\ op = "idle"
    /\ op' = "analyze_intent"
    /\ aPhase' = "completion"
    /\ UNCHANGED <<aResp, aOut, gVars, rVars, xVars, cVars, eVars, pVars, fVars, qVars, sVars>>

\* Lines 608-674: the completion is back; the record is built or the default returned.
AnalyzeIntentReturn ==
    /\ op = "analyze_intent"
    /\ aPhase = "completion"
    /\ \E resp \in AnalyzeResponses :
          /\ aResp' = resp
          /\ aOut' = Return(AnalyzeIntent(resp))
    /\ aPhase' = "done"
    /\ UNCHANGED <<op, gVars, rVars, xVars, cVars, eVars, pVars, fVars, qVars, sVars>>

AnalyzeIntentDone == op = "analyze_intent" /\ aPhase = "done"

(***************************************************************************)
(* MLBAgent.create_data_plan and MLBAgent._create_fallback_plan            *)
(***************************************************************************)
\* self.functions (names) and self.endpoints (keys), loaded in __init__.
FunctionNames == {"schedule", "standings"}
EndpointNames == {"game"}

\* valid_types and valid_methods, lines 718-721
ValidTypes == {"function", "endpoint"}
ValidMethods == EndpointNames \cup FunctionNames

\* The plans a completion may hold: up to MaxPlanSteps steps, the i-th with id
\* StepIds[i], any type and name; one step may lack its id, the first step may name
\* an undeclared id in depends_on.
MaxPlanSteps == 2
StepIds == [i \in 1..9 |-> <<"s1", "s2", "s3", "s4", "s5", "s6", "s7", "s8", "s9">>[i]]
StepTypes == {"function", "endpoint", "other"}
StepNames == {"schedule", "game", "nosuch"}
EmptyDict == [k \in {} |-> <<>>]

StepDoc(id, type, name, depends_on) ==
    [id |-> id, type |-> type, name |-> name, depends_on |-> depends_on]

StepLists(n) ==
    {[i \in 1..n |-> StepDoc(StepIds[i], f[i].type, f[i].name, <<>>)] :
        f \in [1..n -> [type : StepTypes, name : StepNames]]}

PlanSteps ==
    LET plain == UNION {StepLists(n) : n \in 1..MaxPlanSteps}
    IN plain
       \cup {[st EXCEPT ![1] = Without(st[1], "id")] : st \in plain}
       \cup {[st EXCEPT ![1].depends_on = <<"ghost">>] : st \in plain}
       \cup {[st EXCEPT ![1].depends_on = <<"s2">>] : st \in {p \in plain : Len(p) >= 2}}

\* The dependencies mappings of the completion: step id -> list of prerequisite ids
DependencyMaps ==
    {EmptyDict, "s2" :> <<"s1">>, "s1" :> <<"ghost">>, "ghost" :> <<>>,
     "ghost" :> <<"s1">>}

PlanObjects ==
    {[steps |-> st, dependencies |-> deps] : st \in PlanSteps, deps \in DependencyMaps}
    \cup {[steps |-> st] : st \in PlanSteps}
    \cup {[dependencies |-> EmptyDict]}

PlanResponses ==
    {[kind |-> "raise"], [kind |-> "return", text |-> "malformed"]}
    \cup {[kind |-> "return", text |-> "json", value |-> o] : o \in PlanObjects}

\* Lines 807-819: one of the subscripts or checks raises.
ValidationFails(o) ==
    \/ "steps" \notin DOMAIN o
    \/ \E i \in DOMAIN o.steps :
          o.steps[i].type \notin ValidTypes \/ o.steps[i].name \notin ValidMethods
    \/ \E i \in DOMAIN o.steps : "id" \notin DOMAIN o.steps[i]
    \/ "dependencies" \notin DOMAIN o
    \/ \E k \in DOMAIN o.dependencies : \E j \in DOMAIN o.dependencies[k] :
          o.dependencies[k][j] \notin {o.steps[i].id : i \in DOMAIN o.steps}

\* Mutant: the schedule function whatever the intent type.
_create_fallback_plan_AlwaysSchedule(intent) ==
    [steps |->
       << [id |-> "basic_data",
           type |-> "function",
           name |-> "schedule",
           description |-> "Get basic MLB data",
           parameters |-> [value |-> "sportId=1"],
           extract |-> [fields |-> [stats |-> "$.dates[*].games[*]",
                                    info |-> "$.dates[*].date"]],
           depends_on |-> <<>>] >>,
     dependencies |-> EmptyDict]

\* Lines 828-860
_create_fallback_plan(intent) ==
    LET standings == intent.intent.type = "standings"
    IN [steps |->
          << [id |-> "basic_data",
              type |-> "function",
              name |-> IF standings THEN "standings" ELSE "schedule",
              description |-> "Get basic MLB data",
              parameters |-> [value |-> IF standings THEN "leagueId=103,104" ELSE "sportId=1"],
              extract |-> [fields |->
                             [stats |-> IF standings THEN "$.records[*].teamRecords[*]"
                                        ELSE "$.dates[*].games[*]",
                              info |-> IF standings THEN "$.records[*].division"
                                       ELSE "$.dates[*].date"]],
              depends_on |-> <<>>] >>,
        dependencies |-> EmptyDict]

\* The call as a function of how its completion ended.
create_data_plan(intent, resp) ==
    IF resp.kind = "raise" THEN _create_fallback_plan(intent)
    ELSE IF resp.text /= "json" THEN _create_fallback_plan(intent)
    ELSE IF ValidationFails(resp.value) THEN _create_fallback_plan(intent)
    ELSE resp.value

\* The intents create_data_plan is called with: records analyze_intent returned.
PlanIntents ==
    {AnalyzeIntent([kind |-> "return", text |-> "json", dict |-> TRUE,
                    value |-> IntentObject("true", type, [section |-> "none", field |-> "none", how |-> "none"],
                                           "true", List(<<"NYY">>), TRUE)]) :
        type \in {"standings", "game_info"}}

CIdle ==
    /\ cPhase = "idle"
    /\ cIntent = DefaultIntent
    /\ cResp = NoResp
    /\ cOut = NoOut

CClear ==
    /\ cPhase' = "idle"
    /\ cIntent' = DefaultIntent
    /\ cResp' = NoResp
    /\ cOut' = NoOut

\* Lines 710-803: the call, up to the awaited completion.
CallCreateDataPlan(intent) ==
    /\ op = "idle"
    /\ op' = "create_data_plan"
    /\ cPhase' = "completion"
    /\ cIntent' = intent
    /\ UNCHANGED <<cResp, cOut, gVars, rVars, xVars, aVars, eVars, pVars, fVars, qVars, sVars>>

\* Lines 804-826: the completion is back; the plan is validated or replaced.
CreateDataPlanReturn ==
    /\ op = "create_data_plan"
    /\ cPhase = "completion"
    /\ \E resp \in PlanResponses :
          /\ cResp' = resp
          /\ cOut' = Return(create_data_plan(cIntent, resp))
    /\ cPhase' = "done"
    /\ UNCHANGED <<op, cIntent, gVars, rVars, xVars, aVars, eVars, pVars, fVars, qVars, sVars>>

CreateDataPlanDone == op = "create_data_plan" /\ cPhase = "done"

\* The intents _create_fallback_plan is called with: the records analyze_intent
\* returns, of every intent type, on either path, and its default record.
FallbackIntents ==
    {DefaultIntent}
    \cup {AnalyzeIntent([kind |-> "return", text |-> "json", dict |-> TRUE,
                         value |-> IntentObject(mlb, type, [section |-> "none", field |-> "none", how |-> "none"],
                                                requires, List(<<"NYY">>), TRUE)]) :
            mlb \in {"true", "false"}, type \in IntentType, requires \in {"true", "false"}}

\* _create_fallback_plan(intent) is called on its own.
CallCreateFallbackPlan ==
    /\ op = "idle"
    /\ op' = "_create_fallback_plan"
    /\ \E intent \in FallbackIntents : cIntent' = intent
    /\ cResp' = NoCompletion
    /\ cOut' = NoOut
    /\ cPhase' = "called"
    /\ UNCHANGED <<gVars, rVars, xVars, aVars, eVars, pVars, fVars, qVars, sVars>>

\* Lines 832-860: the plan is returned.
CreateFallbackPlanReturn ==
    /\ op = "_create_fallback_plan"
    /\ cPhase = "called"
    /\ cOut' = Return(_create_fallback_plan(cIntent))
    /\ cPhase' = "done"
    /\ UNCHANGED <<op, cIntent, cResp, gVars, rVars, xVars, aVars, eVars, pVars, fVars, qVars, sVars>>

CreateFallbackPlanDone == op = "_create_fallback_plan" /\ cPhase = "done"

(***************************************************************************)
(* MLBAgent.execute_plan, _execute_step and the two step runners           *)
(***************************************************************************)
\* What a runner hands back: a value or an exception, and how many times it ran
\* _process_extraction on the way.  failed remembers that the runner's body raised,
\* handled that the except branch of _execute_step ran, fallback what that branch
\* did with the step's fallback ("none", "failed", "used").
Outcome(kind, val, extractions) ==
    [kind |-> kind, val |-> val, extractions |-> extractions,
     failed |-> kind = "raise", handled |-> FALSE, fallback |-> "none"]

\* The code a function step runs is the completion's, sanitized: any layout, any
\* behaviour.
AgentSandboxOutcomes == SandboxOutcomes(Indents)

\* Lines 989-1031: the try body of _execute_function_step.  params and codegen say
\* whether _resolve_parameters and _generate_execution_code raised.
FunctionStepBody(step, params, codegen, repl) ==
    IF step.name \notin FunctionNames THEN Outcome("raise", <<"ValueError">>, 0)
    ELSE IF params = "raise" THEN Outcome("raise", <<"KeyError">>, 0)
    ELSE IF codegen = "raise" THEN Outcome("raise", <<"Exception">>, 0)
    ELSE IF repl.kind = "raise" THEN Outcome("raise", repl.val, 0)
    ELSE IF repl.val.status = "error" THEN Outcome("raise", <<"RuntimeError">>, 0)
    ELSE IF ~Truthy(repl.val.output) THEN Outcome("raise", <<"ValueError">>, 0)
    ELSE IF ~JsonTextParses(repl.val.output.s) THEN Outcome("raise", <<"ValueError">>, 0)
    ELSE IF JsonTextValue(repl.val.output.s).hasError THEN Outcome("raise", <<"RuntimeError">>, 0)
    ELSE Outcome("return", JsonTextValue(repl.val.output.s), 0)

\* Lines 1033-1035: except Exception: return None
SwallowException(out) ==
    IF out.kind = "raise" THEN [out EXCEPT !.kind = "return", !.val = None] ELSE out

_execute_function_step(step, params, codegen, repl) ==
    SwallowException(FunctionStepBody(step, params, codegen, repl))

FunctionStepOutcomes ==
    [name \in StepNames |->
        {_execute_function_step([name |-> name], params, codegen, repl) :
            params \in {"ok", "raise"}, codegen \in {"ok", "raise"},
            repl \in AgentSandboxOutcomes}]

\* The values steps hand on: parsed outputs and response bodies, the latter empty or
\* of a serialised size just above the extraction threshold.
EndpointBodies ==
    {Json("body", TRUE, FALSE, EXTRACTION_SIZE_THRESHOLD + 1), Json("0", FALSE, FALSE, 3)}
StepData ==
    {Json("a", TRUE, FALSE, 3), Json("b", TRUE, TRUE, 3), Json("0", FALSE, FALSE, 3)}
    \cup EndpointBodies

\* _process_extraction as a function of its data and of how its calls ended.
_process_extraction(data, llm, repl) ==
    IF UsesDirectPath("_process_extraction", data)
    THEN DirectBranch("_process_extraction", data, llm).val
    ELSE IF llm.kind = "raise" THEN data
    ELSE CodeBranch("_process_extraction", data, repl).val

ProcessExtractionReturns ==
    [data \in StepData |->
        IF UsesDirectPath("_process_extraction", data)
        THEN {_process_extraction(data, llm, NoRepl) : llm \in Completions}
        ELSE {_process_extraction(data, llm, repl) :
                llm \in CodeCompletions, repl \in SandboxOutcomes({ExecutionCodeIndent("_process_extraction")})}]

\* How the GET of an endpoint step ends: the URL could not be resolved, the request
\* failed, the status was not 2xx, the body was not JSON, or a body came back.
EndpointAnswers ==
    {[ended |-> e] : e \in {"nourl", "neterror", "status", "notjson"}}
    \cup {[ended |-> "ok", body |-> b] : b \in EndpointBodies}

\* Lines 1123-1162: the try body of _execute_endpoint_step; extracted is what
\* _process_extraction returned, if it ran.
EndpointStepBody(step, answer, extracted) ==
    IF answer.ended = "nourl" THEN Outcome("raise", <<"KeyError">>, 0)
    ELSE IF step.name = "" THEN Outcome("raise", <<"ValueError">>, 0)
    ELSE IF answer.ended = "neterror" THEN Outcome("raise", <<"ConnectError">>, 0)
    ELSE IF answer.ended = "status" THEN Outcome("raise", <<"HTTPStatusError">>, 0)
    ELSE IF answer.ended = "notjson" THEN Outcome("raise", <<"JSONDecodeError">>, 0)
    ELSE IF "extract" \in DOMAIN step THEN Outcome("return", extracted, 1)
    ELSE Outcome("return", answer.body, 0)

\* Mutant: the runner has no handler.
_execute_endpoint_step_Uncaught(step, answer, extracted) ==
    EndpointStepBody(step, answer, extracted)

\* Lines 1123-1166: the body under except Exception: return None
_execute_endpoint_step(step, answer, extracted) ==
    SwallowException(EndpointStepBody(step, answer, extracted))

EndpointStepOutcomes(step) ==
    {_execute_endpoint_step(step, answer, None) :
        answer \in {a \in EndpointAnswers : a.ended /= "ok"}}
    \cup UNION {{_execute_endpoint_step(step, [ended |-> "ok", body |-> b], x) :
                    x \in ProcessExtractionReturns[b]} : b \in EndpointBodies}

\* Line 979: self._execute_fallback(deps, step, prior_results).  MLBAgent defines no
\* method of that name, so the attribute lookup raises.
_execute_fallback(step) == Outcome("raise", <<"AttributeError">>, 0)

\* Lines 972-983: the except branch of _execute_step.
ExecuteStepExcept(step, run) ==
    LET entered == [run EXCEPT !.kind = "return", !.val = None, !.handled = TRUE]
        fb == _execute_fallback(step)
    IN IF "fallback" \in DOMAIN step
       THEN IF fb.kind = "raise"
            THEN [entered EXCEPT !.fallback = "failed"]
            ELSE [entered EXCEPT !.val = fb.val, !.fallback = "used"]
       ELSE entered

\* Lines 955-983: _execute_step as a function of what the runner did.
_execute_step(step, run) ==
    IF step.type \in {"function", "endpoint"}
    THEN IF run.kind = "raise" THEN ExecuteStepExcept(step, run) ELSE run
    ELSE Outcome("return", None, 0)

ExecuteStepOutcomes(step) ==
    {_execute_step(step, run) :
        run \in IF step.type = "function" THEN FunctionStepOutcomes[step.name]
                ELSE IF step.type = "endpoint" THEN EndpointStepOutcomes(step)
                ELSE {Outcome("return", None, 0)}}

\* Mutant: the steps are taken from the end of the list.
StepAt_Reversed(plan, i) == plan.steps[Len(plan.steps) + 1 - i]

\* for step in plan["steps"] (line 868): the i-th step the loop takes
StepAt(plan, i) == plan.steps[i]

\* Mutant: a falsy result ends the loop.
NextStep_AbortOnFalsy(raw, i, n) == IF Truthy(raw) THEN i + 1 ELSE n + 1

\* The for loop of line 868: after a step, truthy or not, the next one.
NextStep(raw, i, n) == i + 1

\* The plans handed to execute_plan: up to MaxSteps steps, each a function step of
\* the catalog, an endpoint step, or a step of an unknown type; function and endpoint
\* steps with or without "extract", with or without a "fallback".
MaxSteps == 3
Extract == [fields |-> [stats |-> "$.stats[*]"]]
Fallback == [type |-> "function", name |-> "schedule"]
ExecStepShapes ==
    {[type |-> "function", name |-> "schedule"],
     [type |-> "function", name |-> "schedule", extract |-> Extract, fallback |-> Fallback],
     [type |-> "endpoint", name |-> "game", fallback |-> Fallback],
     [type |-> "endpoint", name |-> "game", extract |-> Extract],
     [type |-> "other", name |-> "schedule", fallback |-> Fallback]}
ExecStep(i, shape) == shape @@ [id |-> StepIds[i], depends_on |-> <<>>]
\* Two-step plans create_data_plan returns as generated, whose steps depend on one
\* another: the second on the first, the first on the second, the first on an id no
\* step has.
DependentPlanObjects ==
    {[steps |-> <<StepDoc("s1", "function", "schedule", <<>>),
                  StepDoc("s2", "endpoint", "game", <<"s1">>)>>,
      dependencies |-> ("s2" :> <<"s1">>)],
     [steps |-> <<StepDoc("s1", "endpoint", "game", <<"s2">>),
                  StepDoc("s2", "function", "schedule", <<>>)>>,
      dependencies |-> ("s1" :> <<"s2">>)],
     [steps |-> <<StepDoc("s1", "function", "schedule", <<"ghost">>),
                  StepDoc("s2", "endpoint", "game", <<>>)>>,
      dependencies |-> EmptyDict]}
DependentPlans ==
    {create_data_plan(DefaultIntent, [kind |-> "return", text |-> "json", value |-> o]) :
        o \in DependentPlanObjects}

ExecPlans ==
    {[steps |-> [i \in DOMAIN f |-> ExecStep(i, f[i])], dependencies |-> EmptyDict] :
        f \in UNION {[1..n -> ExecStepShapes] : n \in 1..MaxSteps}}
    \cup DependentPlans

NoPlan == [steps |-> <<>>, dependencies |-> EmptyDict]

EIdle ==
    /\ ePhase = "idle"
    /\ ePlan = NoPlan
    /\ eIdx = 1
    /\ eRaw = <<>>
    /\ eExtractions = <<>>
    /\ eLog = <<>>
    /\ eResults = EmptyDict
    /\ eOut = NoOut

EClear ==
    /\ ePhase' = "idle"
    /\ ePlan' = NoPlan
    /\ eIdx' = 1
    /\ eRaw' = <<>>
    /\ eExtractions' = <<>>
    /\ eLog' = <<>>
    /\ eResults' = EmptyDict
    /\ eOut' = NoOut

\* Lines 862-866: results = {}
CallExecutePlan ==
    /\ op = "idle"
    /\ op' = "execute_plan"
    /\ ePhase' = "loop"
    /\ \E plan \in ExecPlans : ePlan' = plan
    /\ eIdx' = 1
    /\ eRaw' = <<>>
    /\ eExtractions' = <<>>
    /\ eLog' = <<>>
    /\ eResults' = EmptyDict
    /\ eOut' = NoOut
    /\ UNCHANGED <<gVars, rVars, xVars, aVars, cVars, pVars, fVars, qVars, sVars>>

\* Lines 868-882: one iteration of the loop.
ExecuteStep ==
    /\ op = "execute_plan"
    /\ ePhase = "loop"
    /\ eIdx <= Len(ePlan.steps)
    /\ LET step == StepAt(ePlan, eIdx)
       IN \E run \in ExecuteStepOutcomes(step) :
            /\ eRaw' = Append(eRaw, run.val)
            /\ eLog' = Append(eLog, [id |-> step.id, failed |-> run.failed,
                                     handled |-> run.handled, fallback |-> run.fallback])
            /\ eIdx' = NextStep(run.val, eIdx, Len(ePlan.steps))
            /\ IF ~Truthy(run.val)
               THEN /\ eResults' = eResults
                    /\ eExtractions' = Append(eExtractions, run.extractions)
               ELSE IF "extract" \in DOMAIN step
               THEN /\ \E filtered \in ProcessExtractionReturns[run.val] :
                          eResults' = With(eResults, step.id, filtered)
                    /\ eExtractions' = Append(eExtractions, run.extractions + 1)
               ELSE /\ eResults' = With(eResults, step.id, run.val)
                    /\ eExtractions' = Append(eExtractions, run.extractions)
    /\ UNCHANGED <<op, ePhase, ePlan, eOut, gVars, rVars, xVars, aVars, cVars, pVars, fVars, qVars, sVars>>

\* Line 883: return results
ExecutePlanReturn ==
    /\ op = "execute_plan"
    /\ ePhase = "loop"
    /\ eIdx > Len(ePlan.steps)
    /\ eOut' = Return(eResults)
    /\ ePhase' = "done"
    /\ UNCHANGED <<op, ePlan, eIdx, eRaw, eExtractions, eLog, eResults, gVars, rVars, xVars, aVars, cVars, pVars, fVars, qVars, sVars>>

ExecutePlanDone == op = "execute_plan" /\ ePhase = "done"

(***************************************************************************)
(* MLBAgent.process_message and what it awaits                             *)
(***************************************************************************)
PyStr(x) == [t |-> "str", s |-> x]
Dict(v) == [t |-> "dict", v |-> v]

\* Lines 676-690
_create_error_response(error) ==
    [message |-> PyStr("I encountered an issue processing your request."),
     conversation |-> PyStr("I apologize, but I ran into a technical issue. Could you try rephrasing your question?"),
     data_type |-> PyStr("error"),
     data |-> Dict([error |-> error]),
     context |-> Dict(EmptyDict),
     suggestions |-> List(<<PyStr("Try asking about today's games"),
                            PyStr("Look up a specific player"),
                            PyStr("Check team standings")>>),
     media |-> None]

\* Lines 1836-1844
_get_default_suggestions ==
    List(<<PyStr("Tell me about today's games"),
           PyStr("Who are the top players this season?"),
           PyStr("Show me the latest standings"),
           PyStr("What are some exciting home runs?"),
           PyStr("Tell me about your favorite baseball moment")>>)

\* The two requests the agent instance may be serving, and their messages.
Requests == {"r1", "r2"}
Message == [r \in Requests |-> IF r = "r1" THEN "How are the Yankees doing?" ELSE "Who won last night?"]
\* context["user_info"]["language"], or no "user_info" in the context
Languages == {"english", "french", "missing"}

\* The completions process_message's classification is run against: a failure, or an
\* object for the question asked (a standings question for r1, a game question for
\* r2) with or without its optional keys.
PMIntentType == [r \in Requests |-> IF r = "r1" THEN "standings" ELSE "game_info"]
PMIntentResponses ==
    [r \in Requests |->
        {[kind |-> "raise"]}
        \cup {[kind |-> "return", text |-> "json", dict |-> TRUE, value |-> o] :
                o \in IntentObjects({PMIntentType[r]},
                                    {[section |-> "none", field |-> "none", how |-> "none"]},
                                    {List(<<"NYY">>)})}]

\* The completions its plan synthesis is run against.
PMPlanResponses ==
    {[kind |-> "raise"],
     [kind |-> "return", text |-> "json",
      value |-> [steps |-> <<StepDoc("s1", "function", "schedule", <<>>),
                             StepDoc("s2", "endpoint", "game", <<"s1">>)>>,
                 dependencies |-> ("s2" :> <<"s1">>)]]}

\* What execute_plan returns for a plan: entries for none or for all of its steps.
ExecuteResults(plan) ==
    {[id \in ids |-> Json("a", TRUE, FALSE, 3)] :
        ids \in {{}, {plan.steps[i].id : i \in DOMAIN plan.steps}}}

\* Lines 1740-1788: format_response returns what json.loads gave, whatever its shape,
\* and its default when the completion or the parsing fails.
FormatAnswers == {"raise", "malformed", "object", "nosummary", "list"}
format_response(data, answer) ==
    CASE answer \in {"raise", "malformed"} ->
            [summary |-> PyStr("Here's what I found about the baseball stats."),
             details |-> Dict(data), media |-> None]
      [] answer = "object" -> [summary |-> PyStr("summary"), details |-> Dict(data)]
      [] answer = "nosummary" -> [details |-> Dict(data)]
      [] answer = "list" -> List(<<>>)

\* Lines 1790-1834: generate_conversation returns the completion's text, or its
\* default when the completion fails.
ConversationAnswers == {"raise", "text"}
generate_conversation(answer) ==
    IF answer = "raise"
    THEN PyStr("I'd be happy to talk baseball with you! What would you like to know about the game?")
    ELSE PyStr("conversation")

\* Lines 1846-1864: _generate_suggestions has no handler.
SuggestionAnswers == {"raise", "malformed", "list"}
_generate_suggestions(answer) ==
    CASE answer = "raise" -> Raise("500 internal error")
      [] answer = "malformed" -> Raise("Expecting value: line 1 column 1 (char 0)")
      [] answer = "list" -> Return(List(<<PyStr("suggestion")>>))

\* Lines 2466-2503: translate_response returns what json.loads gave, whatever its
\* shape, and the response when the completion or the parsing fails.
TranslationAnswers == {"raise", "malformed", "object", "list"}
translate_response(response, answer) ==
    CASE answer \in {"raise", "malformed"} -> response
      [] answer = "object" ->
            [response EXCEPT !.message = PyStr("traduit"), !.conversation = PyStr("traduit")]
      [] answer = "list" -> List(<<>>)

Media == Json("media", TRUE, FALSE, 3)
Chart == Json("chart", TRUE, FALSE, 3)

\* if self.intent["is_mlb_related"] and self.intent["context"].get("requires_data", True)
DataPath(rec) ==
    /\ rec.is_mlb_related
    /\ IF "requires_data" \in DOMAIN rec.context THEN rec.context.requires_data ELSE TRUE

\* Lines 1897-1906
DataReply(rec, plan, response_data, conversation, suggestions, chart) ==
    [message |-> response_data.summary,
     conversation |-> conversation,
     data_type |-> Dict(rec.intent),
     data |-> response_data.details,
     context |-> Dict([intent |-> rec, steps |-> plan.steps]),
     suggestions |-> suggestions,
     media |-> IF "media" \in DOMAIN response_data THEN response_data.media ELSE None,
     chart |-> chart]

\* Lines 1922-1932
ConversationReply(rec, conversation) ==
    [message |-> IF "intent_description" \in DOMAIN rec THEN rec.intent_description
                 ELSE PyStr("Let's talk baseball!"),
     conversation |-> conversation,
     data_type |-> PyStr("conversation"),
     data |-> Dict(EmptyDict),
     context |-> Dict([intent |-> rec]),
     suggestions |-> _get_default_suggestions,
     media |-> None]

NoReads == [c \in {} |-> DefaultIntent]
PMIdleRecord ==
    [pc |-> "idle", language |-> "english", classified |-> NoResp, own |-> DefaultIntent,
     reads |-> NoReads, path |-> "none", plan |-> NoPlan, data |-> EmptyDict,
     response_data |-> None, chart |-> None, suggestions |-> None, conversation |-> None,
     result |-> None, raised |-> "", out |-> NoOut]

PIdle ==
    /\ self_intent = None
    /\ self_user_query = ""
    /\ event_loop = "free"
    /\ pm = [r \in Requests |-> PMIdleRecord]

PClear ==
    /\ self_intent' = None
    /\ self_user_query' = ""
    /\ event_loop' = "free"
    /\ pm' = [r \in Requests |-> PMIdleRecord]

\* An exception reaches one of the two handlers of process_message (lines 1914-1916,
\* 1940-1942): the error reply is returned.
Fail(rec, error) ==
    [rec EXCEPT !.pc = "done", !.raised = error,
                !.out = Return(_create_error_response(error))]

\* Lines 1908-1913 and 1934-1938: the language is looked up and the translation
\* called; for an empty or English language translate_response returns at once.
StartTranslation(rec, result) ==
    IF rec.language = "missing" THEN Fail(rec, "'user_info'")
    ELSE IF rec.language = "english"
    THEN [rec EXCEPT !.pc = "done", !.result = result, !.out = Return(result)]
    ELSE [rec EXCEPT !.pc = "translate", !.result = result]

\* Lines 1866-1872: the call, up to the awaited analyze_intent.
PMCall(r) ==
    /\ op = "idle"
    /\ op' = "process_message"
    /\ pm[r].pc = "idle"
    /\ event_loop = "free"
    /\ \E language \in Languages :
          pm' = [pm EXCEPT ![r].pc = "classify", ![r].language = language]
    /\ UNCHANGED <<self_intent, self_user_query, event_loop, gVars, rVars, xVars, aVars, cVars, eVars, fVars, qVars, sVars>>

\* Lines 1872-1880 and 1919: analyze_intent is back, self.intent is assigned and
\* tested, and create_data_plan or generate_conversation is called with it.
PMClassified(r) ==
    /\ op = "process_message"
    /\ pm[r].pc = "classify"
    /\ event_loop \in {"free", r}
    /\ \E resp \in PMIntentResponses[r] :
          LET rec == AnalyzeIntent(resp)
              mine == [pm[r] EXCEPT !.classified = resp, !.own = rec]
          IN /\ self_intent' = rec
             /\ self_user_query' = Message[r]
             /\ pm' = [pm EXCEPT ![r] =
                    IF "is_mlb_related" \notin DOMAIN rec
                    THEN Fail(mine, "'is_mlb_related'")
                    ELSE IF DataPath(rec)
                    THEN [mine EXCEPT !.pc = "plan", !.path = "data",
                                      !.reads = ("plan" :> rec) @@ @]
                    ELSE [mine EXCEPT !.pc = "converse", !.path = "conversation",
                                      !.reads = ("conversation" :> rec) @@ @]]
    /\ UNCHANGED <<op, event_loop, gVars, rVars, xVars, aVars, cVars, eVars, fVars, qVars, sVars>>

\* Lines 1880-1881: create_data_plan is back, execute_plan is called.
PMPlanned(r) ==
    /\ op = "process_message"
    /\ pm[r].pc = "plan"
    /\ event_loop \in {"free", r}
    /\ \E resp \in PMPlanResponses :
          pm' = [pm EXCEPT ![r].pc = "execute",
                           ![r].plan = create_data_plan(pm[r].reads.plan, resp)]
    /\ UNCHANGED <<op, self_intent, self_user_query, event_loop, gVars, rVars, xVars, aVars, cVars, eVars, fVars, qVars, sVars>>

\* Lines 1010, 1363 and repl.py 84-90: inside execute_plan a function step or a code
\* extraction calls self.repl(code), whose coroutine calls subprocess.run without
\* awaiting anything: the thread of the event loop waits in it until the child has
\* ended or timed out.
PMSandbox(r) ==
    /\ op = "process_message"
    /\ pm[r].pc = "execute"
    /\ event_loop = "free"
    /\ event_loop' = r
    /\ pm' = [pm EXCEPT ![r].pc = "sandbox"]
    /\ UNCHANGED <<op, self_intent, self_user_query, gVars, rVars, xVars, aVars, cVars, eVars, fVars, qVars, sVars>>

\* Lines 1881-1882: execute_plan is back (a subprocess it was running has ended),
\* format_response is called and builds its prompt from self.intent.
PMExecuted(r) ==
    /\ op = "process_message"
    /\ pm[r].pc \in {"execute", "sandbox"}
    /\ event_loop \in {"free", r}
    /\ event_loop' = "free"
    /\ \E data \in ExecuteResults(pm[r].plan) :
          pm' = [pm EXCEPT ![r].pc = "format", ![r].data = data,
                           ![r].reads = ("compose" :> self_intent) @@ @]
    /\ UNCHANGED <<op, self_intent, self_user_query, gVars, rVars, xVars, aVars, cVars, eVars, fVars, qVars, sVars>>

\* Lines 1882-1885: format_response is back, _resolve_media is called.
PMFormatted(r) ==
    /\ op = "process_message"
    /\ pm[r].pc = "format"
    /\ event_loop \in {"free", r}
    /\ \E answer \in FormatAnswers :
          pm' = [pm EXCEPT ![r].pc = "media",
                           ![r].response_data = format_response(pm[r].data, answer)]
    /\ UNCHANGED <<op, self_intent, self_user_query, event_loop, gVars, rVars, xVars, aVars, cVars, eVars, fVars, qVars, sVars>>

\* Lines 1885-1890: _resolve_media is back, the media stored, _resolve_chart called.
PMMedia(r) ==
    /\ op = "process_message"
    /\ pm[r].pc = "media"
    /\ event_loop \in {"free", r}
    /\ \E media \in {None, Media} :
          pm' = [pm EXCEPT ![r] =
                    IF ~Truthy(media) THEN [@ EXCEPT !.pc = "chart"]
                    ELSE IF "t" \in DOMAIN @.response_data
                    THEN Fail(@, "'list' object does not support item assignment")
                    ELSE [@ EXCEPT !.pc = "chart",
                                   !.response_data = With(@, "media", media)]]
    /\ UNCHANGED <<op, self_intent, self_user_query, event_loop, gVars, rVars, xVars, aVars, cVars, eVars, fVars, qVars, sVars>>

\* Lines 1890-1892: _resolve_chart is back, _generate_suggestions is called and builds
\* its prompt from self.intent.
PMChart(r) ==
    /\ op = "process_message"
    /\ pm[r].pc = "chart"
    /\ event_loop \in {"free", r}
    /\ \E chart \in {None, Chart} :
          pm' = [pm EXCEPT ![r].pc = "suggest", ![r].chart = chart,
                           ![r].reads = ("suggestions" :> self_intent) @@ @]
    /\ UNCHANGED <<op, self_intent, self_user_query, event_loop, gVars, rVars, xVars, aVars, cVars, eVars, fVars, qVars, sVars>>

\* Lines 1892-1895: _generate_suggestions is back, generate_conversation is called
\* and builds its prompt from self.intent.
PMSuggested(r) ==
    /\ op = "process_message"
    /\ pm[r].pc = "suggest"
    /\ event_loop \in {"free", r}
    /\ \E answer \in SuggestionAnswers :
          LET got == _generate_suggestions(answer)
          IN pm' = [pm EXCEPT ![r] =
                      IF got.kind = "raise" THEN Fail(@, got.val)
                      ELSE [@ EXCEPT !.pc = "converse", !.suggestions = got.val,
                                     !.reads = ("conversation" :> self_intent) @@ @]]
    /\ UNCHANGED <<op, self_intent, self_user_query, event_loop, gVars, rVars, xVars, aVars, cVars, eVars, fVars, qVars, sVars>>

\* Lines 1893-1911 and 1919-1936: generate_conversation is back, the reply is built
\* from the locals and from self.intent, and translate_response is called.
PMConversed(r) ==
    /\ op = "process_message"
    /\ pm[r].pc = "converse"
    /\ event_loop \in {"free", r}
    /\ \E answer \in ConversationAnswers :
          LET conversation == generate_conversation(answer)
              mine == [pm[r] EXCEPT !.conversation = conversation,
                                    !.reads = ("reply" :> self_intent) @@ @]
          IN pm' = [pm EXCEPT ![r] =
                      IF mine.path = "conversation"
                      THEN StartTranslation(mine, ConversationReply(self_intent, conversation))
                      ELSE IF "t" \in DOMAIN mine.response_data
                      THEN Fail(mine, "list indices must be integers or slices, not str")
                      ELSE IF "summary" \notin DOMAIN mine.response_data
                      THEN Fail(mine, "'summary'")
                      ELSE StartTranslation(mine,
                              DataReply(self_intent, mine.plan, mine.response_data, conversation,
                                        mine.suggestions, mine.chart))]
    /\ UNCHANGED <<op, self_intent, self_user_query, event_loop, gVars, rVars, xVars, aVars, cVars, eVars, fVars, qVars, sVars>>

\* Lines 1908-1913 and 1934-1938: translate_response is back and its value returned.
PMTranslated(r) ==
    /\ op = "process_message"
    /\ pm[r].pc = "translate"
    /\ event_loop \in {"free", r}
    /\ \E answer \in TranslationAnswers :
          pm' = [pm EXCEPT ![r].pc = "done",
                           ![r].out = Return(translate_response(pm[r].result, answer))]
    /\ UNCHANGED <<op, self_intent, self_user_query, event_loop, gVars, rVars, xVars, aVars, cVars, eVars, fVars, qVars, sVars>>

PMDone(r) == op = "process_message" /\ pm[r].pc = "done"
ProcessMessageDone ==
    /\ op = "process_message"
    /\ \A r \in Requests : pm[r].pc \in {"idle", "done"}

(***************************************************************************)
(* format_response, generate_conversation, _generate_suggestions alone     *)
(***************************************************************************)
Composers == {"format_response", "generate_conversation", "_generate_suggestions"}

\* How the completion call of each of them may end.
ComposerAnswers ==
    [fn \in Composers |->
        CASE fn = "format_response" -> FormatAnswers
          [] fn = "generate_conversation" -> ConversationAnswers
          [] fn = "_generate_suggestions" -> SuggestionAnswers]

\* The completion call failed, or its text could not be parsed.
CompletionFailed(answer) == answer \in {"raise", "malformed"}

ComposerData == {EmptyDict, "s1" :> Json("a", TRUE, FALSE, 3)}

\* What the caller of the method observes.
Compose(fn, data, answer) ==
    CASE fn = "format_response" -> Return(format_response(data, answer))
      [] fn = "generate_conversation" -> Return(generate_conversation(answer))
      [] fn = "_generate_suggestions" -> _generate_suggestions(answer)

FIdle ==
    /\ fFn = "none"
    /\ fData = EmptyDict
    /\ fAnswer = "none"
    /\ fOut = NoOut

FClear ==
    /\ fFn' = "none"
    /\ fData' = EmptyDict
    /\ fAnswer' = "none"
    /\ fOut' = NoOut

\* The method is called and awaits its completion.
CallComposer ==
    /\ op = "idle"
    /\ op' = "compose"
    /\ \E fn \in Composers, data \in ComposerData :
          /\ fFn' = fn
          /\ fData' = data
    /\ UNCHANGED <<fAnswer, fOut, gVars, rVars, xVars, aVars, cVars, eVars, pVars, qVars, sVars>>

\* The completion call has ended and the method has run to its end.
ComposerReturn ==
    /\ op = "compose"
    /\ fAnswer = "none"
    /\ \E answer \in ComposerAnswers[fFn] :
          /\ fAnswer' = answer
          /\ fOut' = Compose(fFn, fData, answer)
    /\ UNCHANGED <<op, fFn, fData, gVars, rVars, xVars, aVars, cVars, eVars, pVars, qVars, sVars>>

ComposerDone == op = "compose" /\ fAnswer /= "none"

(***************************************************************************)
(* MLBAgent._basic_parameter_resolution                                    *)
(***************************************************************************)
\* The strings a parameter may hold: "$" starts a reference, "." separates its
\* parts, "a" is a letter of a key.
RefChars == {"$", ".", "a"}
MaxRefLen == 6
RefTexts == UNION {[1..n -> RefChars] : n \in 0..MaxRefLen}

\* str.split("."): the pieces between dots, at least one piece
RECURSIVE SplitDots(_)
SplitDots(s) ==
    IF s = <<>> THEN << <<>> >>
    ELSE LET rest == SplitDots(Tail(s))
         IN IF Head(s) = "."
            THEN << <<>> >> \o rest
            ELSE << <<Head(s)>> \o rest[1] >> \o Tail(rest)

\* isinstance(value, str) and value.startswith("$")
IsReference(value) == value.t = "str" /\ value.s /= <<>> /\ Head(value.s) = "$"

\* value[1:].split(".")
RefParts(value) == SplitDots(Tail(value.s))

\* Mutant: a value that is no mapping is kept.
WalkStep_KeepsNonMapping(ref_data, part) ==
    IF ref_data.t = "dict"
    THEN IF part \in DOMAIN ref_data.v THEN ref_data.v[part] ELSE Dict(EmptyDict)
    ELSE ref_data

\* Lines 1730-1734: one turn of the loop over the parts
WalkStep(ref_data, part) ==
    IF ref_data.t = "dict"
    THEN IF part \in DOMAIN ref_data.v THEN ref_data.v[part] ELSE Dict(EmptyDict)
    ELSE Dict(EmptyDict)

\* Lines 1728-1735: the loop; it has no break
RECURSIVE Walk(_, _)
Walk(ref_data, parts) ==
    IF parts = <<>> THEN ref_data
    ELSE Walk(WalkStep(ref_data, Head(parts)), Tail(parts))

\* Lines 1720-1738
_basic_parameter_resolution(parameters, prior_results) ==
    [param \in DOMAIN parameters |->
        IF IsReference(parameters[param])
        THEN Walk(prior_results, RefParts(parameters[param]))
        ELSE parameters[param]]

\* The values a results map or a parameter may hold besides mappings and strings.
Scalar == Json("a", TRUE, FALSE, 3)
Leaves == {Scalar, None, List(<<>>)}

\* The results maps: empty, or with the key "a" (or the empty key, or "aa") leading
\* to a leaf or to mappings nested up to three deep.
ResultMaps ==
    {Dict(EmptyDict), Dict(<<>> :> Scalar), Dict(<<"a", "a">> :> Scalar),
     Dict(<<"a">> :> Dict(<<"a">> :> Dict(<<"a">> :> Scalar)))}
    \cup {Dict(<<"a">> :> leaf) : leaf \in Leaves}
    \cup {Dict(<<"a">> :> Dict(<<"a">> :> leaf)) : leaf \in Leaves}

\* The parameters mappings: "gamePk" holds any string or a number, "season" a number.
ParameterMaps ==
    {[gamePk |-> v, season |-> Scalar] : v \in {Str(t) : t \in RefTexts} \cup {Scalar}}

QIdle ==
    /\ qType = "none"
    /\ qUrl = <<>>
    /\ qParams = EmptyDict
    /\ qResults = Dict(EmptyDict)
    /\ qOut = NoOut

QClear ==
    /\ qType' = "none"
    /\ qUrl' = <<>>
    /\ qParams' = EmptyDict
    /\ qResults' = Dict(EmptyDict)
    /\ qOut' = NoOut

\* _basic_parameter_resolution(parameters, prior_results) is called on its own.
CallBasicResolution ==
    /\ op = "idle"
    /\ op' = "_basic_parameter_resolution"
    /\ \E parameters \in ParameterMaps, prior_results \in ResultMaps :
          /\ qParams' = parameters
          /\ qResults' = prior_results
    /\ qType' = "none"
    /\ qUrl' = <<>>
    /\ qOut' = NoOut
    /\ UNCHANGED <<gVars, rVars, xVars, aVars, cVars, eVars, pVars, fVars, sVars>>

\* Line 1738: return resolved
BasicResolutionReturn ==
    /\ op = "_basic_parameter_resolution"
    /\ qOut = NoOut
    /\ qOut' = Return(_basic_parameter_resolution(qParams, qResults))
    /\ UNCHANGED <<op, qType, qUrl, qParams, qResults, gVars, rVars, xVars, aVars, cVars, eVars, pVars, fVars, sVars>>

BasicResolutionDone == op = "_basic_parameter_resolution" /\ qOut /= NoOut

(***************************************************************************)
(* The except branch of MLBAgent._resolve_parameters                       *)
(***************************************************************************)
\* A URL is a sequence of pieces: literal text, a "{key}" placeholder, or the text
\* str(value) of a value.
Lit(text) == [tok |-> "lit", text |-> text]
Hole(key) == [tok |-> "hole", key |-> key]
Val(value) == [tok |-> "val", value |-> value]

\* The keys of a step's parameters in the order the plan wrote them: the order in
\* which params.items() yields them.
ParamOrder == <<"gamePk", "season">>
Items(params) == SelectSeq(ParamOrder, LAMBDA key : key \in DOMAIN params)

\* f"{{{key}}}" in base_url
HasPlaceholder(base_url, key) == \E i \in 1..Len(base_url) : base_url[i] = Hole(key)

\* base_url.replace(f"{{{key}}}", str(value))
ReplacePlaceholder(base_url, key, value) ==
    [i \in 1..Len(base_url) |-> IF base_url[i] = Hole(key) THEN Val(value) ELSE base_url[i]]

\* Lines 1708-1711: the loop over params.items().  del params[key] changes the size of
\* the dict being iterated, and the iterator's next step raises RuntimeError, also
\* when the deleted key was the last one.
RECURSIVE FillPlaceholders(_, _)
FillPlaceholders(keys, base_url) ==
    IF keys = <<>> THEN Return(base_url)
    ELSE IF HasPlaceholder(base_url, Head(keys)) THEN Raise(<<"RuntimeError">>)
    ELSE FillPlaceholders(Tail(keys), base_url)

\* "&".join(f"{k}={v}" for k, v in params.items())
RECURSIVE QueryString(_, _)
QueryString(keys, params) ==
    IF keys = <<>> THEN <<>>
    ELSE <<Lit(Head(keys)), Lit("="), Val(params[Head(keys)])>>
         \o (IF Tail(keys) = <<>> THEN <<>> ELSE <<Lit("&")>>)
         \o QueryString(Tail(keys), params)

\* Lines 1698-1718: the handler of "except Exception", for a step that has
\* "parameters"; base_url is the catalog's url for the step's name, "" without one.
ResolveParametersExcept(step_type, base_url, parameters, prior_results) ==
    LET params == _basic_parameter_resolution(parameters, prior_results)
        filled == FillPlaceholders(Items(params), base_url)
    IN IF step_type = "function" THEN Return(Dict(params))
       ELSE IF filled.kind = "raise" THEN filled
       ELSE IF DOMAIN params /= {}
       THEN Return([url |-> filled.val \o <<Lit("?")>> \o QueryString(Items(params), params)])
       ELSE Return([url |-> filled.val])

\* The url templates of the catalog: none, without placeholder, and with one or two.
UrlTemplates ==
    {<<>>, <<Lit("/teams")>>, <<Lit("/game/"), Hole("gamePk")>>,
     <<Lit("/game/"), Hole("gamePk"), Lit("/"), Hole("season")>>,
     <<Lit("/people/"), Hole("personId")>>}

FallbackParameterMaps ==
    {EmptyDict, [season |-> Scalar], [gamePk |-> Scalar],
     [gamePk |-> Str(<<"$", "a">>), season |-> Scalar]}

\* Lines 1600-1697 have raised: the completion failed or its text could not be used.
CallResolveParameters ==
    /\ op = "idle"
    /\ op' = "_resolve_parameters"
    /\ \E step_type \in {"function", "endpoint"}, url \in UrlTemplates,
          parameters \in FallbackParameterMaps,
          prior_results \in {Dict(EmptyDict), Dict(<<"a">> :> Scalar)} :
          /\ qType' = step_type
          /\ qUrl' = url
          /\ qParams' = parameters
          /\ qResults' = prior_results
    /\ qOut' = NoOut
    /\ UNCHANGED <<gVars, rVars, xVars, aVars, cVars, eVars, pVars, fVars, sVars>>

\* Lines 1698-1718
ResolveParametersReturn ==
    /\ op = "_resolve_parameters"
    /\ qOut = NoOut
    /\ qOut' = ResolveParametersExcept(qType, qUrl, qParams, qResults)
    /\ UNCHANGED <<op, qType, qUrl, qParams, qResults,
                   gVars, rVars, xVars, aVars, cVars, eVars, pVars, fVars, sVars>>

ResolveParametersDone == op = "_resolve_parameters" /\ qOut /= NoOut

(***************************************************************************)
(* sanitize_code and fix_try_except_blocks (api/utils.py)                  *)
(***************************************************************************)
\* Code is a sequence of lines.  A line is the number of its leading spaces, what its
\* text after them is, and its number in the generated code (standing for the rest
\* of its text):
\*   import  starts with "import " or "from "      try     starts with "try:"
\*   except  starts with "except"                  open    another line ending in ":"
\*   stmt    any other statement                   blank   nothing but whitespace
MaxLines == 3
LineShapes ==
    {[indent |-> i, kind |-> k] : i \in {0, 4}, k \in {"import", "open"}}
    \cup {[indent |-> 0, kind |-> k] : k \in {"try", "except"}}
    \cup {[indent |-> i, kind |-> "stmt"] : i \in {0, 4, 8}}
    \cup {[indent |-> 0, kind |-> "blank"]}
Numbered(shapes) ==
    [i \in 1..Len(shapes) |->
        [indent |-> shapes[i].indent, kind |-> shapes[i].kind, no |-> i]]
Codes == {Numbered(shapes) : shapes \in UNION {[1..n -> LineShapes] : n \in 0..MaxLines}}

IsBlank(line) == line.kind = "blank"

\* Line 28: [line.rstrip() for line in code.split("\n") if line.strip()]
NonBlankLines(code) == SelectSeq(code, LAMBDA line : ~IsBlank(line))

\* Lines 31-37: the minimum non-zero indentation, 0 when no line is indented
BaseIndent(lines) ==
    LET levels == {lines[i].indent : i \in 1..Len(lines)} \ {0}
    IN IF levels = {} THEN 0
       ELSE CHOOSE m \in levels : \A l \in levels : m <= l

\* Lines 40-46: base_indent spaces are cut from the lines that start with them
Normalize(lines) ==
    [i \in 1..Len(lines) |->
        IF lines[i].indent >= BaseIndent(lines)
        THEN [lines[i] EXCEPT !.indent = @ - BaseIndent(lines)]
        ELSE lines[i]]

\* line.startswith("import ") or line.startswith("from ")
IsImportLine(line) == line.kind = "import" /\ line.indent = 0

\* The "" put between the imports and the rest
SeparatorLine == [indent |-> 0, kind |-> "blank", no |-> 0]

\* Lines 49-59: import_lines + [""] + other_lines if import_lines else other_lines
ImportsFirst(lines) ==
    LET import_lines == SelectSeq(lines, IsImportLine)
        other_lines == SelectSeq(lines, LAMBDA line : ~IsImportLine(line))
    IN IF import_lines /= <<>>
       THEN import_lines \o <<SeparatorLine>> \o other_lines
       ELSE other_lines

\* Lines 84-109: the loop of fix_try_except_blocks, indent_level being level
RECURSIVE FixLines(_, _)
FixLines(lines, level) ==
    IF lines = <<>> THEN <<>>
    ELSE LET line == Head(lines)
         IN IF line.kind = "try" THEN <<line>> \o FixLines(Tail(lines), level + 1)
            ELSE IF line.kind = "except" THEN <<line>> \o FixLines(Tail(lines), level)
            ELSE LET placed == IF level > 0 /\ ~IsBlank(line)
                               THEN [line EXCEPT !.indent = 4 * level]
                               ELSE line
                     after == IF line.kind = "open" THEN level + 1
                              ELSE IF IsBlank(line) /\ level > 0 THEN 0
                              ELSE level
                 IN <<placed>> \o FixLines(Tail(lines), after)

\* Lines 70-111
fix_try_except_blocks(code) == FixLines(code, 0)

\* Lines 11-67
sanitize_code(code) ==
    fix_try_except_blocks(ImportsFirst(Normalize(NonBlankLines(code))))

\* The snippet the sandbox receives: the column of its first statement, and what it
\* does.  A line left of the first statement's column cannot be compiled wherever the
\* snippet is put; code without statements leaves the wrapper's own statements as the
\* body of its try block.
SnippetOf(code, does, text) ==
    LET lines == NonBlankLines(code)
    IN IF lines = <<>> THEN [indent |-> 4, does |-> "complete", text |-> <<>>]
       ELSE IF \E i \in 1..Len(lines) : lines[i].indent < lines[1].indent
       THEN [indent |-> lines[1].indent, does |-> "nocompile", text |-> <<>>]
       ELSE [indent |-> lines[1].indent, does |-> does, text |-> text]

\* What generated code prints: one JSON line, or a log line and then a JSON line.
PrintedTexts == {<<"a", "\n">>, <<"0", "\n", "a", "\n">>}

SIdle ==
    /\ sCode = <<>>
    /\ sDoes = "none"
    /\ sText = <<>>
    /\ sPhase = "idle"
    /\ sClean = <<>>
    /\ sRepl = NoRepl
    /\ sOut = NoOut

SClear ==
    /\ sCode' = <<>>
    /\ sDoes' = "none"
    /\ sText' = <<>>
    /\ sPhase' = "idle"
    /\ sClean' = <<>>
    /\ sRepl' = NoRepl
    /\ sOut' = NoOut

\* agent.py 1001-1006: _generate_execution_code has returned execution_code.
CallRunGeneratedCode ==
    /\ op = "idle"
    /\ op' = "run_generated_code"
    /\ \E code \in Codes : sCode' = code
    /\ sPhase' = "generated"
    /\ UNCHANGED <<sDoes, sText, sClean, sRepl, sOut,
                   gVars, rVars, xVars, aVars, cVars, eVars, pVars, fVars, qVars>>

\* agent.py 1007: sanitized_code = sanitize_code(execution_code)
SanitizeGeneratedCode ==
    /\ op = "run_generated_code"
    /\ sPhase = "generated"
    /\ sClean' = sanitize_code(sCode)
    /\ sPhase' = "sanitized"
    /\ UNCHANGED <<op, sCode, sDoes, sText, sRepl, sOut,
                   gVars, rVars, xVars, aVars, cVars, eVars, pVars, fVars, qVars>>

\* agent.py 1010-1028: repl_result = await self.repl(code=sanitized_code), and what the
\* try body makes of it.
RunSanitizedCode ==
    /\ op = "run_generated_code"
    /\ sPhase = "sanitized"
    /\ \E does \in {"complete", "raise"}, text \in PrintedTexts :
          /\ sDoes' = does
          /\ sText' = text
          /\ sRepl' = ReplOutcome(RunWrapped(SnippetOf(sClean, does, text)))
          /\ sOut' = FunctionStepBody([name |-> "schedule"], "ok", "ok", sRepl')
    /\ sPhase' = "done"
    /\ UNCHANGED <<op, sCode, sClean,
                   gVars, rVars, xVars, aVars, cVars, eVars, pVars, fVars, qVars>>

RunGeneratedCodeDone == op = "run_generated_code" /\ sPhase = "done"

(***************************************************************************)
(* The specification                                                       *)
(***************************************************************************)
Init ==
    /\ op = "idle"
    /\ GIdle
    /\ RIdle
    /\ XIdle
    /\ AIdle
    /\ CIdle
    /\ EIdle
    /\ PIdle
    /\ FIdle
    /\ QIdle
    /\ SIdle

Reset ==
    /\ op /= "idle"
    /\ GenerateDone \/ ReplDone \/ ExtractionDone \/ AnalyzeIntentDone \/ CreateDataPlanDone
       \/ ExecutePlanDone \/ ProcessMessageDone \/ ComposerDone \/ CreateFallbackPlanDone
       \/ BasicResolutionDone \/ RunGeneratedCodeDone \/ ResolveParametersDone
    /\ op' = "idle"
    /\ GClear
    /\ RClear
    /\ XClear
    /\ AClear
    /\ CClear
    /\ EClear
    /\ PClear
    /\ FClear
    /\ QClear
    /\ SClear

Next ==
    \/ \E pref \in {NoModel} \cup Range(GEMINI_MODELS),
          answer \in [Range(GEMINI_MODELS) -> Answers] : CallGenerate(pref, answer)
    \/ GenerateBody
    \/ GenerateExcept
    \/ GenerateWrapper
    \/ GenerateReturn
    \/ CallRepl
    \/ ReplRun
    \/ ReplFinish
    \/ \E fn \in {"_process_extraction", "_apply_filtering"} :
          \E data \in ExtractionInputs(fn), info \in ExtractionInfos(fn) :
             CallExtraction(fn, data, info)
    \/ ExtractionCompletion
    \/ ExtractionSandbox
    \/ CallAnalyzeIntent
    \/ AnalyzeIntentReturn
    \/ \E intent \in PlanIntents : CallCreateDataPlan(intent)
    \/ CreateDataPlanReturn
    \/ CallCreateFallbackPlan
    \/ CreateFallbackPlanReturn
    \/ CallExecutePlan
    \/ ExecuteStep
    \/ ExecutePlanReturn
    \/ PMCall("r1")
    \/ \E r \in Requests :
          \/ PMClassified(r)
          \/ PMPlanned(r)
          \/ PMSandbox(r)
          \/ PMExecuted(r)
          \/ PMFormatted(r)
          \/ PMMedia(r)
          \/ PMChart(r)
          \/ PMSuggested(r)
          \/ PMConversed(r)
          \/ PMTranslated(r)
    \/ CallComposer
    \/ ComposerReturn
    \/ CallBasicResolution
    \/ BasicResolutionReturn
    \/ CallResolveParameters
    \/ ResolveParametersReturn
    \/ CallRunGeneratedCode
    \/ SanitizeGeneratedCode
    \/ RunSanitizedCode
    \/ Reset

Spec == Init /\ [][Next]_vars

(***************************************************************************)
(* Two process_message calls on the one agent instance (lines 2519-2526)   *)
(***************************************************************************)
\* A second request arrives while another is being served: its coroutine starts when
\* the event loop gets to it.
PMCallDuring(r) ==
    /\ op = "process_message"
    /\ pm[r].pc = "idle"
    /\ event_loop = "free"
    /\ \E other \in Requests \ {r} : pm[other].pc \notin {"idle", "done"}
    /\ \E language \in Languages :
          pm' = [pm EXCEPT ![r].pc = "classify", ![r].language = language]
    /\ UNCHANGED <<op, self_intent, self_user_query, event_loop, gVars, rVars, xVars, aVars, cVars, eVars, fVars, qVars, sVars>>

\* The inputs of the concurrent runs: both users speak English (translate_response
\* returns at once), the classification fails or returns a complete object for the
\* question asked, and the completions after it either all succeed with a well-formed
\* answer or fail; no media and no chart are found.
ConcurrentCase(r) ==
    /\ pm[r].language = "english"
    /\ pm[r].classified \in
          {NoResp, [kind |-> "raise"]}
          \cup {[kind |-> "return", text |-> "json", dict |-> TRUE,
                 value |-> IntentObject("true", PMIntentType[r],
                                        [section |-> "none", field |-> "none", how |-> "none"],
                                        requires, List(<<"NYY">>), TRUE)] :
                    requires \in {"true", "false"}}
    /\ Len(pm[r].plan.steps) <= 1
    /\ pm[r].response_data /= None => "summary" \in DOMAIN pm[r].response_data
    /\ pm[r].chart = None
    /\ "media" \in DOMAIN pm[r].response_data => pm[r].response_data.media = None

NextConcurrent ==
    \/ PMCall("r1") /\ ConcurrentCase("r1")'
    \/ PMCallDuring("r2") /\ ConcurrentCase("r2")'
    \/ \E r \in Requests :
          \/ PMClassified(r) /\ ConcurrentCase(r)'
          \/ PMPlanned(r) /\ ConcurrentCase(r)'
          \/ PMSandbox(r)
          \/ PMExecuted(r)
          \/ PMFormatted(r) /\ ConcurrentCase(r)'
          \/ PMMedia(r) /\ ConcurrentCase(r)'
          \/ PMChart(r) /\ ConcurrentCase(r)'
          \/ PMSuggested(r)
          \/ PMConversed(r)
    \/ Reset

SpecConcurrent == Init /\ [][NextConcurrent]_vars

(***************************************************************************)
(* Properties of generate_with_fallback                                    *)
(***************************************************************************)
\* The first n-1 models of the hierarchy answer 429 and the n-th answers.
FirstSuccessAt(n) ==
    /\ \A i \in 1..(n - 1) : gAnswer[GEMINI_MODELS[i]] = "429"
    /\ gAnswer[GEMINI_MODELS[n]] = "ok"

\* C8: with no preferred model, when the first N-1 models of the hierarchy answer
\* with a 429 error and the N-th succeeds, the finished call has returned the N-th
\* model's result after invoking exactly models 1..N, and its caller has observed no
\* failure; for every N from 1 to the length of the hierarchy.
C8_FallbackReturnsNthResult ==
    \A n \in 1..Len(GEMINI_MODELS) :
        (GenerateDone /\ gPref = NoModel /\ FirstSuccessAt(n))
            => /\ gOut.kind = "return"
               /\ gOut.val = ResultOf(GEMINI_MODELS[n])
               /\ gOut.errors = 0
               /\ gCalls = SubSeq(GEMINI_MODELS, 1, n)

\* C8 witness: three rate-limited models, the fourth answers, and the call returned.
C8_Witness ==
    /\ GenerateDone
    /\ gPref = NoModel
    /\ FirstSuccessAt(Len(GEMINI_MODELS))
    /\ gOut.kind = "return"

\* C9 (as claimed): when every model answers with a rate-limit error the call ends
\* by raising exactly one failure, the "All models exhausted" failure.
C9_ExhaustionRaisesAllModelsExhausted ==
    (GenerateDone /\ \A m \in Range(GEMINI_MODELS) : gAnswer[m] = "429")
        => /\ gOut.kind = "raise"
           /\ gOut.errors = 1
           /\ gOut.val = ErrExhausted

\* C10: once an invoked model has failed with an error that is not a rate-limit
\* error, no further model is invoked and the same model is not invoked again, and
\* the finished call has raised that very error to its caller.
C10_OtherErrorPropagatesImmediately ==
    \A k \in 1..Len(gCalls) :
        gAnswer[gCalls[k]] = "error"
            => /\ k = Len(gCalls)
               /\ GenerateDone => (gOut.kind = "raise" /\ gOut.val = ErrOther /\ gOut.errors = 1)

\* C10 witness: the second model invoked failed with a non-rate-limit error and the
\* call ended by raising.
C10_Witness ==
    /\ GenerateDone
    /\ Len(gCalls) = 2
    /\ gAnswer[gCalls[1]] = "429"
    /\ gAnswer[gCalls[2]] = "error"
    /\ gOut.kind = "raise"

(***************************************************************************)
(* Properties of the sandbox                                               *)
(***************************************************************************)
IsErrorResult(v) == v.status = "error" /\ v.error /= None

\* C3 (as claimed): for every snippet the finished sandbox call has returned a result
\* and raised nothing; after a timeout, a non-zero exit or unparseable output the
\* result has status "error" and a non-null error, and after a timeout the error is
\* "Execution timed out after N seconds" with N the configured timeout.
C3_SandboxNeverRaises ==
    ReplDone =>
        /\ rOut.kind = "return"
        /\ rProc.ended = "timeout" =>
              (IsErrorResult(rOut.val) /\ rOut.val.error = TimedOutMessage(ReplTimeout))
        /\ (rProc.ended = "exit" /\ rProc.returncode /= 0) => IsErrorResult(rOut.val)
        /\ (rProc.ended = "exit" /\ rProc.returncode = 0 /\ ~JsonParses(rProc.stdout))
              => IsErrorResult(rOut.val)

(***************************************************************************)
(* Properties of extraction and filtering                                  *)
(***************************************************************************)
\* The completion call (of the direct branch, or the code-generation call) failed.
XCompletionFailed == xLlm.kind = "raise"
\* json.loads failed on the completion's text (direct branch).
XDirectParseFailed ==
    xPath = "direct" /\ xLlm.kind = "return" /\ ~JsonTextParses(DirectText(xFn, xLlm.text))
\* The sandbox run failed: it raised or its result has status "error".
XSandboxFailed ==
    xRepl.kind = "raise" \/ (xRepl.kind = "return" /\ xRepl.val.status = "error")
\* json.loads failed on the sandbox's output (code-generation branch).
XOutputParseFailed ==
    /\ xRepl.kind = "return"
    /\ xRepl.val.status = "success"
    /\ Truthy(xRepl.val.output)
    /\ ~JsonTextParses(xRepl.val.output.s)

\* C4: whenever the completion call, the code-generation call, the sandbox run or the
\* JSON parsing has failed inside _process_extraction or _apply_filtering, in either
\* branch, the finished call has raised nothing and returned the original data.
C4_FailureReturnsOriginalData ==
    (ExtractionDone
        /\ (XCompletionFailed \/ XDirectParseFailed \/ XSandboxFailed \/ XOutputParseFailed))
        => (xOut.kind = "return" /\ xOut.val = xData)

\* C4 witness: the code-generation branch of _apply_filtering whose sandbox run ended
\* with status "error", finished.
C4_Witness ==
    /\ ExtractionDone
    /\ xFn = "_apply_filtering"
    /\ xPath = "code"
    /\ XSandboxFailed
    /\ xOut = Return(xData)

(***************************************************************************)
(* Properties of analyze_intent                                            *)
(***************************************************************************)
\* The completion failed, its text was empty or malformed JSON, or a coercion failed.
AFailed ==
    \/ aResp.kind = "raise"
    \/ IntentParseFails(aResp)
    \/ (aResp.kind = "return" /\ aResp.text = "json" /\ aResp.dict /\ CoercionFails(aResp.value))

\* C6: after any failure inside analyze_intent the call has not raised and has
\* returned a record with is_mlb_related = false, intent type conversation,
\* requires_data = false and every entity list empty.
C6_FailureReturnsDefaultRecord ==
    (AnalyzeIntentDone /\ AFailed) =>
        /\ aOut.kind = "return"
        /\ "is_mlb_related" \in DOMAIN aOut.val
        /\ aOut.val.is_mlb_related = FALSE
        /\ aOut.val.intent.type = "conversation"
        /\ aOut.val.context.requires_data = FALSE
        /\ \A c \in EntityCategories : aOut.val.entities[c] = List(<<>>)

(***************************************************************************)
(* Properties of create_data_plan                                          *)
(***************************************************************************)
\* The plan returned is the generated one.
CReturnedGenerated ==
    cOut.kind = "return" /\ cResp.kind = "return" /\ cResp.text = "json" /\ cOut.val = cResp.value

\* The step ids the dependencies mapping of a plan names: its keys and the ids listed
\* under them.
DependencyIds(plan) ==
    DOMAIN plan.dependencies
    \cup UNION {Range(plan.dependencies[k]) : k \in DOMAIN plan.dependencies}

DeclaredIds(plan) ==
    {plan.steps[i].id : i \in {j \in DOMAIN plan.steps : "id" \in DOMAIN plan.steps[j]}}

\* C5: create_data_plan does not raise, and a generated plan it returns has every
\* step type in {function, endpoint}, every step name in the catalog, and a
\* dependencies mapping that names declared step ids only; otherwise the fallback plan
\* is what it returns.
C5_ReturnedPlanIsValidated ==
    CreateDataPlanDone =>
        /\ cOut.kind = "return"
        /\ IF CReturnedGenerated
           THEN /\ \A i \in DOMAIN cOut.val.steps :
                      /\ cOut.val.steps[i].type \in ValidTypes
                      /\ cOut.val.steps[i].name \in ValidMethods
                /\ DependencyIds(cOut.val) \subseteq DeclaredIds(cOut.val)
           ELSE cOut.val = _create_fallback_plan(cIntent)

(***************************************************************************)
(* Properties of execute_plan                                              *)
(***************************************************************************)
\* C1: execute_plan never raises, and when it has returned every step of the plan was
\* executed and the results map has an entry for a step id exactly when
\* _execute_step returned a truthy value for that step.
C1_EntriesExactlyForTruthySteps ==
    /\ eOut.kind /= "raise"
    /\ ExecutePlanDone =>
          /\ eOut.kind = "return"
          /\ Len(eRaw) = Len(ePlan.steps)
          /\ \A i \in DOMAIN ePlan.steps :
                (ePlan.steps[i].id \in DOMAIN eOut.val) <=> Truthy(eRaw[i])

\* C1 witness: a 3-step plan whose step 2, which declares no fallback, returned
\* nothing, finished with entries for steps 1 and 3 only.
C1_Witness ==
    /\ ExecutePlanDone
    /\ Len(ePlan.steps) = 3
    /\ "fallback" \notin DOMAIN ePlan.steps[2]
    /\ eRaw[2] = None
    /\ DOMAIN eOut.val = {"s1", "s3"}

(***************************************************************************)
(* Properties of process_message                                           *)
(***************************************************************************)
\* The classification of request r failed: analyze_intent fell to its except branch.
PMClassificationFailed(r) ==
    \/ pm[r].classified.kind = "raise"
    \/ IntentParseFails(pm[r].classified)
    \/ (pm[r].classified.kind = "return" /\ pm[r].classified.text = "json"
            /\ (~pm[r].classified.dict \/ CoercionFails(pm[r].classified.value)))

\* C7: when the classification of a request failed, process_message has gone on with
\* the default record on the conversation path, has synthesized no plan, and has
\* returned a reply whose data_type is "conversation".
C7_ClassificationFailureGivesConversationReply ==
    \A r \in Requests :
        (PMDone(r) /\ PMClassificationFailed(r)) =>
            /\ pm[r].path = "conversation"
            /\ pm[r].plan = NoPlan
            /\ pm[r].out.kind = "return"
            /\ pm[r].out.val.data_type = PyStr("conversation")

\* A reply has the fields of MLBResponse, with the types MLBResponse gives them.
WellFormedReply(reply) ==
    /\ {"message", "conversation", "data_type", "data", "context", "suggestions", "media"}
          \subseteq DOMAIN reply
    /\ reply.message.t = "str"
    /\ reply.conversation.t = "str"
    /\ reply.data_type.t = "str"
    /\ reply.data.t = "dict"
    /\ reply.context.t = "dict"
    /\ reply.suggestions.t = "list"

\* C2: process_message never raises; the reply it returns is well-formed; and when an
\* exception reached one of its handlers the reply is the fixed error reply, with the
\* error string in data.error and nowhere else.
C2_AlwaysWellFormedReply ==
    \A r \in Requests :
        /\ pm[r].out.kind /= "raise"
        /\ PMDone(r) =>
              /\ pm[r].out.kind = "return"
              /\ WellFormedReply(pm[r].out.val)
              /\ pm[r].raised /= "" =>
                    /\ pm[r].out.val.message = PyStr("I encountered an issue processing your request.")
                    /\ pm[r].out.val.data_type = PyStr("error")
                    /\ pm[r].out.val.data = Dict([error |-> pm[r].raised])
                    /\ PyStr(pm[r].raised) \notin
                          {pm[r].out.val.message, pm[r].out.val.conversation}
                          \cup Range(pm[r].out.val.suggestions.items)


\* Every activation on the stack is within tenacity's attempt limit.
AttemptsWithinLimit == \A k \in 1..Len(gStack) : gStack[k].attempt <= StopAfterAttempt

\* C11 (as claimed): the attempts of one request never exceed four, and when a
\* rate-limit error leaves the body of an activation that has attempts left, the
\* wrapper runs the same request again instead of letting the error out.
C11_RateLimitErrorIsRetried ==
    /\ []AttemptsWithinLimit
    /\ [][(/\ op = "generate_with_fallback"
           /\ gPhase = "wrapper"
           /\ is_rate_limit_error(gExc)
           /\ Last(gStack).attempt < StopAfterAttempt)
            => (gPhase' = "body" /\ Len(gStack') = Len(gStack))]_vars


\* The runner of step k of the running plan failed: its body raised.
StepFailed(k) ==
    /\ ePlan.steps[k].type \in {"function", "endpoint"}
    /\ eLog[k].failed

\* C12 (as claimed): when the execution of a function or endpoint step failed and the
\* step declares a fallback, the fallback execution was attempted; its result is the
\* step's result when it succeeded, and the step is absent from the results only when
\* the fallback failed too; either way the loop went on to the next step.
C12_FailedStepUsesItsFallback ==
    op = "execute_plan" =>
        \A k \in 1..Len(eLog) :
            (StepFailed(k) /\ "fallback" \in DOMAIN ePlan.steps[k])
                => /\ eLog[k].fallback \in {"used", "failed"}
                   /\ eLog[k].fallback = "failed" => ePlan.steps[k].id \notin DOMAIN eResults
                   /\ eIdx > k


(***************************************************************************)
(* Properties of concurrent process_message calls                          *)
(***************************************************************************)
\* C13 (as claimed): whatever a request's plan synthesis, response composition,
\* suggestion generation, conversation and final reply read as the intent record is
\* the record classified for that request's own message.
C13_EachRequestReadsItsOwnIntent ==
    \A r \in Requests : \A c \in DOMAIN pm[r].reads : pm[r].reads[c] = pm[r].own

\* Request r is suspended on a completion call (asyncio.to_thread, gemini_solid.py 55).
WaitingOnLLM(r) == pm[r].pc \in {"classify", "plan", "execute", "format", "suggest", "converse"}

\* Request r is inside the sandbox's subprocess.run (repl.py 84-90).
WaitingOnSandbox(r) == pm[r].pc = "sandbox"

\* Some continuation of request r runs on the event loop.
PMStep(r) ==
    \/ PMClassified(r)
    \/ PMPlanned(r)
    \/ PMSandbox(r)
    \/ PMExecuted(r)
    \/ PMFormatted(r)
    \/ PMMedia(r)
    \/ PMChart(r)
    \/ PMSuggested(r)
    \/ PMConversed(r)
    \/ PMTranslated(r)

\* C14 (as claimed): while a request waits on a completion call or on a sandbox
\* subprocess, every other request in flight can take its next step.
C14_WaitingDoesNotBlockOthers ==
    \A r \in Requests : \A o \in Requests \ {r} :
        ((WaitingOnLLM(r) \/ WaitingOnSandbox(r)) /\ pm[o].pc \notin {"idle", "done"})
            => ENABLED PMStep(o)

\* The half of C14 that is about completion calls only.
LLMWaitDoesNotBlockOthers ==
    \A r \in Requests : \A o \in Requests \ {r} :
        (WaitingOnLLM(r) /\ event_loop = "free" /\ pm[o].pc \notin {"idle", "done"})
            => ENABLED PMStep(o)


(***************************************************************************)
(* Properties of the composing methods                                     *)
(***************************************************************************)
\* The default each method's handler returns.
ComposerDefault(fn, data) ==
    CASE fn = "format_response" ->
            [summary |-> PyStr("Here's what I found about the baseball stats."),
             details |-> Dict(data), media |-> None]
      [] fn = "generate_conversation" ->
            PyStr("I'd be happy to talk baseball with you! What would you like to know about the game?")
      [] fn = "_generate_suggestions" -> _get_default_suggestions

\* C15 (as claimed): when its completion call failed or returned unparseable output,
\* each of format_response, generate_conversation and _generate_suggestions has
\* returned its default and has not raised.
C15_ComposersReturnDefaultOnFailure ==
    (ComposerDone /\ CompletionFailed(fAnswer))
        => /\ fOut.kind = "return"
           /\ fOut.val = ComposerDefault(fFn, fData)

\* The same for the two methods that have a handler.
HandledComposersReturnDefault ==
    (ComposerDone /\ CompletionFailed(fAnswer) /\ fFn /= "_generate_suggestions")
        => /\ fOut.kind = "return"
           /\ fOut.val = ComposerDefault(fFn, fData)


(***************************************************************************)
(* Properties of _create_fallback_plan                                     *)
(***************************************************************************)
\* C16: the plan _create_fallback_plan returned has exactly one step, of type
\* function, with an empty depends_on, and an empty dependencies mapping; the step
\* calls standings when the intent type is standings and schedule for every other
\* type; and every intent of the same type, the same intent included, gives an equal
\* plan.
C16_FallbackPlanDependsOnTypeOnly ==
    CreateFallbackPlanDone =>
        /\ cOut.kind = "return"
        /\ Len(cOut.val.steps) = 1
        /\ cOut.val.steps[1].type = "function"
        /\ cOut.val.steps[1].depends_on = <<>>
        /\ cOut.val.dependencies = EmptyDict
        /\ cOut.val.steps[1].name =
              (IF cIntent.intent.type = "standings" THEN "standings" ELSE "schedule")
        /\ \A other \in FallbackIntents :
              other.intent.type = cIntent.intent.type
                  => _create_fallback_plan(other) = cOut.val

\* C16 witness: a standings intent off the data path got the standings plan.
C16_Witness ==
    /\ CreateFallbackPlanDone
    /\ cIntent.intent.type = "standings"
    /\ ~cIntent.context.requires_data
    /\ cOut.val.steps[1].name = "standings"


(***************************************************************************)
(* Properties of depends_on                                                *)
(***************************************************************************)
\* Some step of the plan lists in depends_on an id that no step of the plan has.
DependsOnUndeclared(plan) ==
    /\ "steps" \in DOMAIN plan
    /\ \E i \in DOMAIN plan.steps : \E j \in DOMAIN plan.steps[i].depends_on :
          plan.steps[i].depends_on[j] \notin DeclaredIds(plan)

\* C17 (as claimed): when the completion's plan has a step whose depends_on names an
\* id that is not the id of any step, create_data_plan has returned the fallback
\* plan.
C17_UndeclaredDependsOnIsRejected ==
    (CreateDataPlanDone /\ cResp.kind = "return" /\ cResp.text = "json"
        /\ DependsOnUndeclared(cResp.value))
            => cOut = Return(_create_fallback_plan(cIntent))


\* create_data_plan returns this plan as generated: it passes lines 807-819.
AcceptedByCreateDataPlan(plan) ==
    create_data_plan(DefaultIntent, [kind |-> "return", text |-> "json", value |-> plan]) = plan

\* C18 (as claimed): in an execute_plan call on a plan create_data_plan returns, every
\* id in the depends_on of a step that has been started is the id of a step executed
\* earlier in the same call.  Plans that name ids no step has are left to C17.
C18_StepsRunAfterTheirDependencies ==
    (op = "execute_plan" /\ AcceptedByCreateDataPlan(ePlan) /\ ~DependsOnUndeclared(ePlan))
        => \A k \in 1..Len(eRaw) : \A d \in Range(ePlan.steps[k].depends_on) :
              \E j \in 1..(k - 1) : ePlan.steps[j].id = d

\* What does hold: the steps are executed in the order of the list.
StepsRunInListOrder ==
    op = "execute_plan" => (Len(eRaw) = eIdx - 1 \/ ePhase = "done")


(***************************************************************************)
(* Properties of the step runners                                          *)
(***************************************************************************)
\* C19: when the body of _execute_endpoint_step raised (the URL was not resolved, the
\* GET failed or answered a non-2xx status, the body was not JSON), the runner
\* returned None, the except branch of _execute_step was not entered, and the loop of
\* execute_plan went on: the call ends having executed every step.
C19_EndpointFailureBecomesNull ==
    op = "execute_plan" =>
        /\ \A k \in 1..Len(eLog) :
              (ePlan.steps[k].type = "endpoint" /\ eLog[k].failed)
                  => /\ eRaw[k] = None
                     /\ ~eLog[k].handled
                     /\ eIdx > k
        /\ ExecutePlanDone => Len(eRaw) = Len(ePlan.steps)

\* C19 witness: the endpoint step that came first failed, and the step after it was
\* executed and gave a result.
C19_Witness ==
    /\ ExecutePlanDone
    /\ Len(ePlan.steps) >= 2
    /\ ePlan.steps[1].type = "endpoint"
    /\ eLog[1].failed
    /\ eRaw[1] = None
    /\ Truthy(eRaw[2])
    /\ DOMAIN eResults = {ePlan.steps[2].id}


\* C20 (as claimed): when the body of _execute_function_step raised (unknown function
\* name, sandbox status "error", output that is not JSON, output with an "error"
\* key), the step counts as failed and the exception reached the except branch of
\* _execute_step.
C20_FunctionFailureReachesStepHandler ==
    op = "execute_plan" =>
        \A k \in 1..Len(eLog) :
            (ePlan.steps[k].type = "function" /\ eLog[k].failed)
                => /\ eRaw[k] = None
                   /\ eLog[k].handled

\* What does hold: a failed function step gives None.
FunctionFailureBecomesNull ==
    op = "execute_plan" =>
        \A k \in 1..Len(eLog) :
            (ePlan.steps[k].type = "function" /\ eLog[k].failed) => eRaw[k] = None


(***************************************************************************)
(* Properties of the sandbox result                                        *)
(***************************************************************************)
\* The lines a text written to standard output consists of: a final newline ends the
\* last line, it does not start another.
LinesWritten(text) ==
    IF text = <<>> THEN <<>>
    ELSE IF Last(text) = "\n" THEN SplitLines(Front(text))
    ELSE SplitLines(text)

\* The snippet was run by the wrapper and ran to its end without raising.
RanToCompletion ==
    /\ ReplDone
    /\ rSnippet.does = "complete"
    /\ rSnippet.indent = 4

\* C21 (as claimed): when a snippet that wrote at least one line ran to completion,
\* the sandbox has returned status "success" with output the last line written and
\* logs the lines written before it, in order.
C21_OutputIsLastLineWritten ==
    (RanToCompletion /\ LinesWritten(rSnippet.text) /= <<>>)
        => /\ rOut.kind = "return"
           /\ rOut.val.status = "success"
           /\ rOut.val.output = Str(Last(LinesWritten(rSnippet.text)))
           /\ rOut.val.logs = Front(LinesWritten(rSnippet.text))

\* The text has no whitespace at its ends other than one final newline.
TrimmedButFinalNewline(text) ==
    /\ text /= <<>>
    /\ Strip(text) = (IF Last(text) = "\n" THEN Front(text) ELSE text)

\* What does hold: the same, for such texts.
OutputIsLastLineOfTrimmedText ==
    (RanToCompletion /\ TrimmedButFinalNewline(rSnippet.text))
        => /\ rOut.kind = "return"
           /\ rOut.val.status = "success"
           /\ rOut.val.output = Str(Last(LinesWritten(rSnippet.text)))
           /\ rOut.val.logs = Front(LinesWritten(rSnippet.text))


(***************************************************************************)
(* Properties of the order of execution                                    *)
(***************************************************************************)
\* C22: the steps execute_plan has executed are the first steps of plan.steps, each
\* once and in the order of the list whatever their depends_on say; the results map
\* holds entries of executed steps only, so a step's execution and extraction are
\* over before the next step starts; and the call ends having executed them all.
C22_StepsRunOnceInListOrder ==
    op = "execute_plan" =>
        /\ Len(eLog) <= Len(ePlan.steps)
        /\ \A k \in 1..Len(eLog) : eLog[k].id = ePlan.steps[k].id
        /\ ePhase = "loop" => eIdx = Len(eLog) + 1
        /\ DOMAIN eResults \subseteq {eLog[k].id : k \in 1..Len(eLog)}
        /\ ExecutePlanDone => Len(eLog) = Len(ePlan.steps)

\* C22 witness: the plan whose first step depends on its second was executed first
\* step first.
C22_Witness ==
    /\ ExecutePlanDone
    /\ Len(ePlan.steps) = 2
    /\ ePlan.steps[1].depends_on = <<"s2">>
    /\ eLog[1].id = "s1"
    /\ eLog[2].id = "s2"


(***************************************************************************)
(* Properties of parameter resolution                                      *)
(***************************************************************************)
\* The dotted path can be followed from data: every part is a key of the mapping
\* reached so far.
RECURSIVE CanFollow(_, _)
CanFollow(data, parts) ==
    \/ parts = <<>>
    \/ /\ data.t = "dict"
       /\ Head(parts) \in DOMAIN data.v
       /\ CanFollow(data.v[Head(parts)], Tail(parts))

\* The value at the end of a path that can be followed.
RECURSIVE ValueAt(_, _)
ValueAt(data, parts) ==
    IF parts = <<>> THEN data ELSE ValueAt(data.v[Head(parts)], Tail(parts))

\* C23: _basic_parameter_resolution returns (it does not raise) a mapping with the
\* keys of parameters, in which a "$..." reference has the value found by following
\* its dotted path through the results map, or the empty mapping when the path
\* cannot be followed, and every other parameter has its own value.
C23_BasicResolutionFollowsPathOrEmpty ==
    BasicResolutionDone =>
        /\ qOut.kind = "return"
        /\ DOMAIN qOut.val = DOMAIN qParams
        /\ \A param \in DOMAIN qParams :
              qOut.val[param] =
                 IF IsReference(qParams[param])
                 THEN IF CanFollow(qResults, RefParts(qParams[param]))
                      THEN ValueAt(qResults, RefParts(qParams[param]))
                      ELSE Dict(EmptyDict)
                 ELSE qParams[param]

\* C23 witness: the reference "$a.a.a" met a number at "a.a" and resolved to the empty
\* mapping, next to a parameter that is no reference.
C23_Witness ==
    /\ BasicResolutionDone
    /\ qParams.gamePk = Str(<<"$", "a", ".", "a", ".", "a">>)
    /\ qResults = Dict(<<"a">> :> Dict(<<"a">> :> Scalar))
    /\ qOut.val.gamePk = Dict(EmptyDict)
    /\ qOut.val.season = Scalar


(***************************************************************************)
(* Properties of the choice between the direct and the generated-code path *)
(***************************************************************************)
InExtractionCall == op \in {"_process_extraction", "_apply_filtering"}

\* The branch follows the size: direct at or below the threshold, generated code above
\* it, and the sandbox is never run on the direct path.
BranchFollowsSize ==
    /\ xPath \in {"direct", "code"}
    /\ xPath = "direct" <=> DataSize(xData) <= SizeThreshold(xFn)
    /\ xPath = "code" <=> DataSize(xData) > SizeThreshold(xFn)
    /\ xPath = "direct" => xPhase /= "sandbox" /\ xRepl = NoRepl

BuiltFromCompletion ==
    /\ AnalyzeIntentDone
    /\ aResp.kind = "return" /\ aResp.text = "json" /\ aResp.dict
    /\ ~CoercionFails(aResp.value)

\* C25: in every record analyze_intent returns, each of the six entity categories
\* is a list; a bare scalar has become a one-element list and a missing or falsy
\* value the empty list.
C25_EveryEntityCategoryIsAList ==
    AnalyzeIntentDone =>
        /\ \A c \in EntityCategories :
              c \in DOMAIN aOut.val.entities /\ aOut.val.entities[c].t = "list"
        /\ BuiltFromCompletion =>
              aOut.val.entities["teams"] =
                 IF "teams" \notin DOMAIN aResp.value.entities THEN List(<<>>)
                 ELSE IF aResp.value.entities["teams"].t = "list"
                      THEN aResp.value.entities["teams"]
                 ELSE IF aResp.value.entities["teams"] \in {None, Str(<<>>)} THEN List(<<>>)
                 ELSE List(<<aResp.value.entities["teams"]>>)

\* What does hold: the categories the completion's object has are lists in the
\* record, a scalar wrapped and a falsy value emptied; a category it lacks is absent
\* from the record too.
PresentEntityCategoriesAreLists ==
    AnalyzeIntentDone =>
        /\ \A c \in DOMAIN aOut.val.entities : aOut.val.entities[c].t = "list"
        /\ BuiltFromCompletion =>
              /\ DOMAIN aOut.val.entities = DOMAIN aResp.value.entities
              /\ "teams" \in DOMAIN aResp.value.entities =>
                    aOut.val.entities["teams"] =
                       IF aResp.value.entities["teams"].t = "list"
                       THEN aResp.value.entities["teams"]
                       ELSE IF aResp.value.entities["teams"] \in {None, Str(<<>>)}
                            THEN List(<<>>)
                       ELSE List(<<aResp.value.entities["teams"]>>)


(***************************************************************************)
(* Properties of generate_with_fallback with a preferred model             *)
(***************************************************************************)
\* The place of a model in the hierarchy.
HierarchyIndex(model) == CHOOSE i \in 1..Len(GEMINI_MODELS) : GEMINI_MODELS[i] = model

\* C26: with a preferred model, generate_with_fallback invokes it first and, after a
\* rate-limit error, the model that follows it in the hierarchy; no model is invoked
\* twice in the chain and none that comes before the preferred one.
C26_ChainStartsAtPreferredModel ==
    (op = "generate_with_fallback" /\ gPref /= NoModel) =>
        /\ gCalls /= <<>> => gCalls[1] = gPref
        /\ (Len(gCalls) >= 2 /\ HierarchyIndex(gPref) < Len(GEMINI_MODELS)) =>
              gCalls[2] = GEMINI_MODELS[HierarchyIndex(gPref) + 1]
        /\ \A i, j \in 1..Len(gCalls) : i /= j => gCalls[i] /= gCalls[j]
        /\ \A i \in 1..Len(gCalls) : HierarchyIndex(gCalls[i]) >= HierarchyIndex(gPref)

\* What does hold: the preferred model is invoked first, and every later invocation
\* of the chain is the hierarchy's second, third, fourth model in turn, whatever the
\* preferred model was.
ChainContinuesFromSecondModel ==
    (op = "generate_with_fallback" /\ gPref /= NoModel) =>
        /\ gCalls /= <<>> => gCalls[1] = gPref
        /\ Len(gCalls) <= Len(GEMINI_MODELS)
        /\ \A i \in 2..Len(gCalls) : gCalls[i] = GEMINI_MODELS[i]


(***************************************************************************)
(* Properties of extraction inside execute_plan                            *)
(***************************************************************************)
\* The k-th step executed declares "extract" and its raw result was truthy.
ExtractsTruthyResult(k) ==
    /\ k \in 1..Len(eLog)
    /\ "extract" \in DOMAIN ePlan.steps[k]
    /\ Truthy(eRaw[k])

\* C27: for every step that declares "extract" and whose raw result is truthy,
\* _process_extraction is applied exactly once before the result is stored, whether
\* the step is a function or an endpoint step.
C27_ExtractionAppliedExactlyOnce ==
    op = "execute_plan" =>
        \A k \in 1..Len(eLog) :
            ExtractsTruthyResult(k) =>
                /\ eExtractions[k] = 1
                /\ ePlan.steps[k].id \in DOMAIN eResults

\* What does hold: once for a function step, twice for an endpoint step, whose data
\* _execute_endpoint_step has extracted already when execute_plan extracts it.
ExtractionAppliedOncePerLayer ==
    op = "execute_plan" =>
        \A k \in 1..Len(eLog) :
            ExtractsTruthyResult(k) =>
                /\ eExtractions[k] = IF ePlan.steps[k].type = "endpoint" THEN 2 ELSE 1
                /\ ePlan.steps[k].id \in DOMAIN eResults


(***************************************************************************)
(* Properties of sanitize_code and of running its result                   *)
(***************************************************************************)
\* Code is consistently indented: it starts at column 0, the line after a line that
\* opens a block is four spaces deeper, and any other line is at the column of the
\* line before it or at the column of an enclosing block.
ConsistentlyIndented(code) ==
    LET lines == NonBlankLines(code)
    IN /\ lines /= <<>>
       /\ lines[1].indent = 0
       /\ \A i \in 2..Len(lines) :
             IF lines[i - 1].kind \in {"open", "try", "except"}
             THEN lines[i].indent = lines[i - 1].indent + 4
             ELSE lines[i].indent <= lines[i - 1].indent
       /\ lines[Len(lines)].kind \notin {"open", "try", "except"}

\* The sanitized snippet is consistently indented from column 0 on, and its
\* statements run to their end.
ColumnZeroSnippetCompletes ==
    /\ RunGeneratedCodeDone
    /\ ConsistentlyIndented(sClean)
    /\ sDoes = "complete"
    /\ SnippetOf(sClean, sDoes, sText).does = "complete"

\* C28: a snippet returned by sanitize_code, its first statement at column 0, that
\* raises nothing and prints one JSON line last is accepted by the sandbox: status
\* "success", that line as output, and the step returns the parsed value.
C28_SanitizedSnippetIsAccepted ==
    ColumnZeroSnippetCompletes =>
        /\ sRepl.kind = "return"
        /\ sRepl.val.status = "success"
        /\ sRepl.val.output = Str(Last(LinesWritten(sText)))
        /\ sOut = Outcome("return", JsonTextValue(Last(LinesWritten(sText))), 0)

\* What does hold: such a snippet is never run.  The script does not compile, the
\* result has status "error" and the step's try body raises RuntimeError.
ColumnZeroSnippetIsRejected ==
    ColumnZeroSnippetCompletes =>
        /\ sRepl.kind = "return"
        /\ sRepl.val.status = "error"
        /\ sRepl.val.output = None
        /\ sOut = Outcome("raise", <<"RuntimeError">>, 0)

\* The numbers of the lines of code, in order, imports apart.
LineNumbers(code) == [i \in 1..Len(code) |-> code[i].no]
ImportNumbers(code) ==
    LineNumbers(SelectSeq(code, LAMBDA line : line.kind = "import"))
OtherNumbers(code) ==
    LineNumbers(SelectSeq(code, LAMBDA line : line.kind /= "import" /\ ~IsBlank(line)))

\* Every import line stands before all other lines, and the other lines are in the
\* order they had.
ImportsMovedOrderKept(code, out) ==
    /\ ImportNumbers(out) = ImportNumbers(code)
    /\ OtherNumbers(out) = OtherNumbers(code)
    /\ \A i, j \in 1..Len(out) :
          (out[i].kind = "import" /\ out[j].kind \notin {"import", "blank"}) => i < j

\* A line that follows the end of an indented block is as deep in out as in code.
DedentsKept(code, out) ==
    LET lines == NonBlankLines(code)
    IN \A i \in 2..Len(lines) :
          (lines[i].indent < lines[i - 1].indent /\ lines[i].kind /= "import") =>
              \E j \in 1..Len(out) :
                  out[j].no = lines[i].no /\ out[j].indent = lines[i].indent

\* C29: on consistently indented code sanitize_code moves every import line before
\* all other lines, keeps the order of the other lines, and leaves a statement that
\* follows the end of an indented block at the nesting level it had.
C29_SanitizeKeepsBlockStructure ==
    (op = "run_generated_code" /\ sPhase /= "generated" /\ ConsistentlyIndented(sCode)) =>
        /\ ImportsMovedOrderKept(sCode, sClean)
        /\ DedentsKept(sCode, sClean)

\* What does hold: the imports are moved and the order is kept.
SanitizeMovesImportsKeepsOrder ==
    (op = "run_generated_code" /\ sPhase /= "generated" /\ ConsistentlyIndented(sCode)) =>
        ImportsMovedOrderKept(sCode, sClean)


(***************************************************************************)
(* Properties of the fallback of _resolve_parameters                       *)
(***************************************************************************)
\* The url the fallback is to build: every placeholder whose key is a resolved
\* parameter replaced by the parameter's value, the other parameters appended as a
\* query string.
RECURSIVE FilledTemplate(_, _, _)
FilledTemplate(keys, params, base_url) ==
    IF keys = <<>> THEN base_url
    ELSE FilledTemplate(Tail(keys), params,
                        ReplacePlaceholder(base_url, Head(keys), params[Head(keys)]))

ExpectedUrl(base_url, params) ==
    LET used == SelectSeq(Items(params), LAMBDA key : HasPlaceholder(base_url, key))
        rest == SelectSeq(Items(params), LAMBDA key : ~HasPlaceholder(base_url, key))
    IN FilledTemplate(used, params, base_url)
       \o (IF rest = <<>> THEN <<>> ELSE <<Lit("?")>> \o QueryString(rest, params))

EndpointFallbackDone == ResolveParametersDone /\ qType = "endpoint"

\* C30: when the LLM-based resolution fails for an endpoint step, _resolve_parameters
\* does not raise and returns the catalog's url template with every placeholder whose
\* key is a resolved parameter replaced by its value and the remaining parameters
\* appended as a query string.
C30_FallbackBuildsUrlFromTemplate ==
    EndpointFallbackDone =>
        /\ qOut.kind = "return"
        /\ qOut.val.url =
              ExpectedUrl(qUrl, _basic_parameter_resolution(qParams, qResults))

\* What does hold: the url is built as said when no placeholder of the template is a
\* resolved parameter, and RuntimeError leaves _resolve_parameters when one is.
FallbackRaisesOnFilledPlaceholder ==
    EndpointFallbackDone =>
        IF \E key \in DOMAIN qParams : HasPlaceholder(qUrl, key)
        THEN qOut = Raise(<<"RuntimeError">>)
        ELSE /\ qOut.kind = "return"
             /\ qOut.val.url =
                   ExpectedUrl(qUrl, _basic_parameter_resolution(qParams, qResults))

====
